---------------------------- MODULE Spec2Model ----------------------------
(***************************************************************************)
(* Model of the module registry (src/src/registry.rs), its metadata types  *)
(* (src/src/types.rs) and its security validator (src/src/security.rs).    *)
(*                                                                         *)
(* The registry is one HashMap<String, (ModuleMetadata, ModuleFactory)>    *)
(* behind a std::sync::RwLock.  Every public method is modelled as the     *)
(* sequence of steps a calling thread takes: acquiring the guard, the body *)
(* that runs under the guard, the factory call, and the drop of the guard  *)
(* when the method returns.                                                *)
(***************************************************************************)
EXTENDS Integers, Sequences, FiniteSets, TLC

(***************************************************************************)
(* Bounds of the model.                                                    *)
(***************************************************************************)
MaxOps == 3       \* method calls issued in one behaviour
MaxTick == 1      \* seconds the clock advances
NumRacers == 2    \* threads of the concurrent-registration scenario (SpecRace)

ThreadIds == <<"t1", "t2", "t3", "t4">>
NameIds == <<"a", "b", "c", "d">>

Callers == {"t1", "t2"}                                \* the threads of Spec and SpecSecure
Racers == {ThreadIds[i] : i \in 1 .. NumRacers}        \* the threads of SpecRace
Threads == Callers \cup Racers
Names == {"a", "b"}                                    \* the names the callers use

(***************************************************************************)
(* src/src/constants.rs                                                    *)
(***************************************************************************)
DEFAULT_MEMORY_LIMIT_MB == 128
DEFAULT_CPU_LIMIT_PERCENT == 50
DEFAULT_TIMEOUT_SECONDS == 30
SIGNATURE_EXPIRY_SECONDS == 365 * 24 * 60 * 60
DEFAULT_SIGNATURE_ALGORITHM == "SHA256-RSA"
DEFAULT_DENIED_PATHS == <<"/etc", "/usr/bin", "/bin">>

(***************************************************************************)
(* Time.  SystemTime::now() is the variable now, in seconds since the      *)
(* epoch; it starts at StartTime and advances by Tick.                     *)
(***************************************************************************)
StartTime == SIGNATURE_EXPIRY_SECONDS + 2

(***************************************************************************)
(* src/src/types.rs.  Option<T> is a sequence of length at most one.       *)
(***************************************************************************)
None == << >>
Some(x) == << x >>
IsSome(o) == Len(o) = 1
Unwrap(o) == o[1]

ModuleSignature(ts, alg, sig, key) ==
    [code_hash |-> "h", signature |-> sig, public_key |-> key,
     timestamp |-> ts, algorithm |-> alg]

ModulePermissionsDefault ==
    [filesystem_access |-> FALSE, network_access |-> FALSE,
     process_spawn |-> FALSE, env_access |-> FALSE, system_access |-> FALSE,
     memory_limit_mb |-> DEFAULT_MEMORY_LIMIT_MB,
     cpu_limit_percent |-> DEFAULT_CPU_LIMIT_PERCENT,
     timeout_seconds |-> DEFAULT_TIMEOUT_SECONDS]

Pending == [tag |-> "Pending"]
InProgress == [tag |-> "InProgress"]
Approved(reviewer, ts) == [tag |-> "Approved", reviewer |-> reviewer, timestamp |-> ts]
Rejected(reviewer, reason, ts) ==
    [tag |-> "Rejected", reviewer |-> reviewer, reason |-> reason, timestamp |-> ts]

SupplyChainInfo(url, commit, ts) ==
    [source_url |-> url, commit_hash |-> commit, build_timestamp |-> ts,
     dependencies |-> << >>, build_environment |-> "ci",
     verifier_signature |-> None]

SandboxConfigDefault ==
    [enabled |-> TRUE, filesystem_isolation |-> TRUE, network_isolation |-> TRUE,
     process_isolation |-> TRUE, read_only_fs |-> TRUE,
     allowed_paths |-> << >>, denied_paths |-> DEFAULT_DENIED_PATHS]

\* Mutant: module_path and struct_name change places.
ModuleMetadataNewSwapped(name, module_type, instantiate_fn_name, module_path, struct_name) ==
    [name |-> name, module_type |-> module_type,
     instantiate_fn_name |-> instantiate_fn_name,
     module_path |-> struct_name, struct_name |-> module_path,
     signature |-> None,
     permissions |-> [filesystem_access |-> FALSE, network_access |-> FALSE,
                      process_spawn |-> FALSE, env_access |-> FALSE,
                      system_access |-> FALSE,
                      memory_limit_mb |-> DEFAULT_MEMORY_LIMIT_MB,
                      cpu_limit_percent |-> DEFAULT_CPU_LIMIT_PERCENT,
                      timeout_seconds |-> DEFAULT_TIMEOUT_SECONDS],
     review_status |-> [tag |-> "Pending"],
     supply_chain |-> None,
     sandbox_config |-> [enabled |-> TRUE, filesystem_isolation |-> TRUE,
                         network_isolation |-> TRUE, process_isolation |-> TRUE,
                         read_only_fs |-> TRUE, allowed_paths |-> << >>,
                         denied_paths |-> DEFAULT_DENIED_PATHS]]

ModuleMetadataNew(name, module_type, instantiate_fn_name, module_path, struct_name) ==
    [name |-> name, module_type |-> module_type,
     instantiate_fn_name |-> instantiate_fn_name,
     module_path |-> module_path, struct_name |-> struct_name,
     signature |-> None,
     permissions |-> ModulePermissionsDefault,
     review_status |-> Pending,
     supply_chain |-> None,
     sandbox_config |-> SandboxConfigDefault]

\* Mutant: a module that comes with a signature and a supply chain starts Approved.
ModuleMetadataSecureAutoApproved(name, module_type, instantiate_fn_name, module_path, struct_name, signature, permissions, supply_chain) ==
    [name |-> name, module_type |-> module_type,
     instantiate_fn_name |-> instantiate_fn_name,
     module_path |-> module_path, struct_name |-> struct_name,
     signature |-> signature,
     permissions |-> permissions,
     review_status |-> IF IsSome(signature) /\ IsSome(supply_chain)
                       THEN Approved("auto", StartTime) ELSE Pending,
     supply_chain |-> supply_chain,
     sandbox_config |-> SandboxConfigDefault]

\* Mutant: the first two String arguments land in each other's field.
ModuleMetadataSecureSwapped(name, module_type, instantiate_fn_name, module_path, struct_name, signature, permissions, supply_chain) ==
    [name |-> module_type, module_type |-> name,
     instantiate_fn_name |-> instantiate_fn_name,
     module_path |-> module_path, struct_name |-> struct_name,
     signature |-> signature,
     permissions |-> permissions,
     review_status |-> Pending,
     supply_chain |-> supply_chain,
     sandbox_config |-> SandboxConfigDefault]

\* Mutant: a module that is granted system access is trusted to run unsandboxed.
ModuleMetadataSecureTrusting(name, module_type, instantiate_fn_name, module_path, struct_name, signature, permissions, supply_chain) ==
    [name |-> name, module_type |-> module_type,
     instantiate_fn_name |-> instantiate_fn_name,
     module_path |-> module_path, struct_name |-> struct_name,
     signature |-> signature,
     permissions |-> permissions,
     review_status |-> Pending,
     supply_chain |-> supply_chain,
     sandbox_config |-> [SandboxConfigDefault EXCEPT
                            !.enabled = ~permissions.system_access]]

ModuleMetadataSecure(name, module_type, instantiate_fn_name, module_path, struct_name, signature, permissions, supply_chain) ==
    [name |-> name, module_type |-> module_type,
     instantiate_fn_name |-> instantiate_fn_name,
     module_path |-> module_path, struct_name |-> struct_name,
     signature |-> signature,
     permissions |-> permissions,
     review_status |-> Pending,
     supply_chain |-> supply_chain,
     sandbox_config |-> SandboxConfigDefault]

(***************************************************************************)
(* Factories.  A ModuleFactory is a plain fn() pointer; calling it yields  *)
(* Ok(instance) with the dynamic type of the instance, or Err.             *)
(***************************************************************************)
Factories == {"create_uppercase", "create_failing"}
NoFactory == "none"
UninitFactory == "uninit"

FactoryCall(f) ==
    IF f = "create_uppercase"
    THEN [ok |-> TRUE, type |-> "Box<dyn TextProcessor>"]
    ELSE [ok |-> FALSE, type |-> "-"]

(***************************************************************************)
(* Inputs the callers draw from.                                           *)
(***************************************************************************)
\* A signature made exactly one year before StartTime: fresh at StartTime,
\* expired one second later.
SignatureAtExpiry ==
    Some(ModuleSignature(StartTime - SIGNATURE_EXPIRY_SECONDS,
                         DEFAULT_SIGNATURE_ALGORITHM, "sig", "key"))

\* A signature stamped one second after StartTime.
SignatureAhead ==
    Some(ModuleSignature(StartTime + 1, DEFAULT_SIGNATURE_ALGORITHM, "sig", "key"))

SystemPermissions == [ModulePermissionsDefault EXCEPT !.system_access = TRUE]

GoodSupplyChain == Some(SupplyChainInfo("https://example.org/repo", "abc123", StartTime))

\* The (signature, permissions, supply_chain) arguments of register_secure.
SecureInputs ==
    {[signature |-> None, permissions |-> ModulePermissionsDefault,
      supply_chain |-> GoodSupplyChain],
     [signature |-> SignatureAtExpiry, permissions |-> ModulePermissionsDefault,
      supply_chain |-> None],
     [signature |-> SignatureAtExpiry, permissions |-> ModulePermissionsDefault,
      supply_chain |-> GoodSupplyChain],
     [signature |-> SignatureAhead, permissions |-> SystemPermissions,
      supply_chain |-> GoodSupplyChain]}

StatusInputs ==
    {Approved("alice", StartTime), Rejected("bob", "unsafe", StartTime)}

DescriptorInputs ==
    {[module_type |-> "test_type", instantiate_fn |-> "create_test",
      module_path |-> "test::path", struct_name |-> "TestStruct"]}

TypeInputs == {"Box<dyn TextProcessor>", "Box<dyn Plugin>"}

VARIABLES
    modules,     \* the HashMap behind the lock: a function from its keys to entries
    committed,   \* the HashMap as the last write guard left it
    writer,      \* the set holding the thread that has the write guard, or empty
    readers,     \* the threads holding a read guard
    pc,          \* where each thread is in the method it is running
    call,        \* the method each thread is running, with its arguments and locals
    result,      \* what each thread's last finished method returned
    now,         \* SystemTime::now(), seconds since the epoch
    nops,        \* number of method calls issued so far
    REGISTRY     \* the static OnceLock of global(), with the inventory linked in

vars == <<modules, committed, writer, readers, pc, call, result, now, nops, REGISTRY>>

NoCall == [op |-> "none"]
NoResult == [op |-> "none"]

Entry(meta, factory) == [meta |-> meta, factory |-> factory]

\* static REGISTRY: OnceLock<ModuleRegistry> = OnceLock::new(), in a process
\* whose inventory holds the given ModuleRegistration records.  state is the
\* OnceLock's; instance names the registry it holds; inits counts the runs of
\* the initialising closure; next is the position of the closure's loop.
OnceLockNew(inventory) ==
    [state |-> "uninit", instance |-> <<"registry", 0>>, inits |-> 0, next |-> 1,
     inventory |-> inventory]

Init ==
    /\ modules = << >>
    /\ committed = << >>
    /\ writer = {}
    /\ readers = {}
    /\ pc = [t \in Threads |-> "idle"]
    /\ call = [t \in Threads |-> NoCall]
    /\ result = [t \in Threads |-> NoResult]
    /\ now = StartTime
    /\ nops = 0
    /\ REGISTRY = OnceLockNew(<< >>)

(***************************************************************************)
(* u64 arithmetic of src/src/security.rs.  A u64 is kept as the signed     *)
(* reading of its bit pattern: a - b that underflows is the negative       *)
(* number a - b, which as an unsigned value is 2^64 + (a - b).  In a build *)
(* with overflow checks (the dev profile) the underflow panics instead.    *)
(***************************************************************************)
Builds == {"overflow-checks", "wrapping"}

WrappingSub(a, b) == a - b

UnsignedGt(x, y) ==
    IF (x < 0) = (y < 0) THEN x > y ELSE x < 0

(***************************************************************************)
(* SecurityValidator (src/src/security.rs).  The Result<bool> functions    *)
(* return "true" or "false"; "panic" is the arithmetic-overflow panic.     *)
(***************************************************************************)
Bool(b) == IF b THEN "true" ELSE "false"

\* Mutant: a module without a signature has nothing to fail on.
verify_signature_lenient(metadata, current_time, build) ==
    IF ~IsSome(metadata.signature) THEN "true"
    ELSE LET sig == Unwrap(metadata.signature) IN
         IF current_time < sig.timestamp /\ build = "overflow-checks" THEN "panic"
         ELSE IF UnsignedGt(WrappingSub(current_time, sig.timestamp),
                            SIGNATURE_EXPIRY_SECONDS) THEN "false"
         ELSE IF sig.algorithm # DEFAULT_SIGNATURE_ALGORITHM THEN "false"
         ELSE Bool(sig.signature # "" /\ sig.public_key # "")

verify_signature(metadata, current_time, build) ==
    IF ~IsSome(metadata.signature) THEN "false"
    ELSE LET sig == Unwrap(metadata.signature) IN
         IF current_time < sig.timestamp /\ build = "overflow-checks" THEN "panic"
         ELSE IF UnsignedGt(WrappingSub(current_time, sig.timestamp),
                            SIGNATURE_EXPIRY_SECONDS) THEN "false"
         ELSE IF sig.algorithm # DEFAULT_SIGNATURE_ALGORITHM THEN "false"
         ELSE Bool(sig.signature # "" /\ sig.public_key # "")

\* Mutant: a status that is neither Approved nor Rejected is an error.
is_approved_erroring(metadata) ==
    IF metadata.review_status.tag \in {"Pending", "InProgress"} THEN "error"
    ELSE Bool(metadata.review_status.tag = "Approved")

is_approved(metadata) == Bool(metadata.review_status.tag = "Approved")

\* Mutant: a build stamped with the current second counts as in the future.
verify_supply_chain_strict(metadata, current_time) ==
    IF ~IsSome(metadata.supply_chain) THEN "false"
    ELSE LET chain == Unwrap(metadata.supply_chain) IN
         IF chain.source_url = "" THEN "false"
         ELSE IF chain.commit_hash = "" THEN "false"
         ELSE IF chain.build_timestamp >= current_time THEN "false"
         ELSE "true"

verify_supply_chain(metadata, current_time) ==
    IF ~IsSome(metadata.supply_chain) THEN "false"
    ELSE LET chain == Unwrap(metadata.supply_chain) IN
         IF chain.source_url = "" THEN "false"
         ELSE IF chain.commit_hash = "" THEN "false"
         ELSE IF chain.build_timestamp > current_time THEN "false"
         ELSE "true"

\* Mutant: a key that names no capability is granted.
check_permissions_fail_open(metadata, required_permission) ==
    CASE required_permission = "filesystem_access" ->
             Bool(metadata.permissions.filesystem_access)
      [] required_permission = "network_access" ->
             Bool(metadata.permissions.network_access)
      [] required_permission = "process_spawn" ->
             Bool(metadata.permissions.process_spawn)
      [] required_permission = "env_access" -> Bool(metadata.permissions.env_access)
      [] required_permission = "system_access" ->
             Bool(metadata.permissions.system_access)
      [] OTHER -> "true"

check_permissions(metadata, required_permission) ==
    CASE required_permission = "filesystem_access" ->
             Bool(metadata.permissions.filesystem_access)
      [] required_permission = "network_access" ->
             Bool(metadata.permissions.network_access)
      [] required_permission = "process_spawn" ->
             Bool(metadata.permissions.process_spawn)
      [] required_permission = "env_access" -> Bool(metadata.permissions.env_access)
      [] required_permission = "system_access" ->
             Bool(metadata.permissions.system_access)
      [] OTHER -> "false"

SecurityIssue(severity, message, component) ==
    [severity |-> severity, message |-> message, component |-> component]

HasSeverity(issues, severity) ==
    \E i \in 1 .. Len(issues) : issues[i].severity = severity

\* Mutant: the Medium test comes before the High test.
calculate_risk_level_medium_first(issues) ==
    IF HasSeverity(issues, "Critical") THEN "Critical"
    ELSE IF HasSeverity(issues, "Medium") THEN "Medium"
    ELSE IF HasSeverity(issues, "High") THEN "High"
    ELSE IF issues # << >> THEN "Low"
    ELSE "None"

calculate_risk_level(issues) ==
    IF HasSeverity(issues, "Critical") THEN "Critical"
    ELSE IF HasSeverity(issues, "High") THEN "High"
    ELSE IF HasSeverity(issues, "Medium") THEN "Medium"
    ELSE IF issues # << >> THEN "Low"
    ELSE "None"

\* The issue a check pushes when it answers Ok(false).
SecurityWarning(message, component) == [message |-> message, component |-> component]

\* The Err(e) arm of a match on a check's Result.
WarningIf(answer, warning) == IF answer = "error" THEN <<warning>> ELSE << >>

\* The warnings comprehensive_check collects from its three matches.
Warnings(metadata, current_time, build) ==
    WarningIf(verify_signature(metadata, current_time, build),
              SecurityWarning("Failed to verify signature", "signature"))
    \o WarningIf(is_approved(metadata),
                 SecurityWarning("Failed to check approval status", "review"))
    \o WarningIf(verify_supply_chain(metadata, current_time),
                 SecurityWarning("Failed to verify supply chain", "supply_chain"))

IssueIf(answer, issue) == IF answer = "false" THEN <<issue>> ELSE << >>

\* Mutant: a module with system access is reported only when it also lacks a signature.
SandboxIssueUnsignedOnly(metadata) ==
    IF /\ metadata.permissions.system_access
       /\ ~metadata.sandbox_config.enabled
       /\ ~IsSome(metadata.signature)
    THEN <<SecurityIssue("High", "System access granted without sandboxing",
                         "permissions")>>
    ELSE << >>

SandboxIssue(metadata) ==
    IF metadata.permissions.system_access /\ ~metadata.sandbox_config.enabled
    THEN <<SecurityIssue("High", "System access granted without sandboxing",
                         "permissions")>>
    ELSE << >>

\* Mutant: an approval counts only in the second it was given.
comprehensive_check_expiring_review(metadata, current_time, build) ==
    LET fresh == /\ metadata.review_status.tag = "Approved"
                 /\ metadata.review_status.timestamp >= current_time
        issues ==
            IssueIf(verify_signature(metadata, current_time, build),
                    SecurityIssue("High", "Module signature verification failed",
                                  "signature"))
            \o IssueIf(Bool(fresh),
                       SecurityIssue("Medium", "Module not approved by code review",
                                     "review"))
            \o IssueIf(verify_supply_chain(metadata, current_time),
                       SecurityIssue("Medium", "Supply chain verification failed",
                                     "supply_chain"))
            \o SandboxIssue(metadata)
    IN [is_secure |-> issues = << >>,
        risk_level |-> calculate_risk_level(issues),
        issues |-> issues,
        warnings |-> Warnings(metadata, current_time, build),
        check_timestamp |-> current_time]

\* The value comprehensive_check returns when verify_signature does not panic.
comprehensive_check(metadata, current_time, build) ==
    LET issues ==
            IssueIf(verify_signature(metadata, current_time, build),
                    SecurityIssue("High", "Module signature verification failed",
                                  "signature"))
            \o IssueIf(is_approved(metadata),
                       SecurityIssue("Medium", "Module not approved by code review",
                                     "review"))
            \o IssueIf(verify_supply_chain(metadata, current_time),
                       SecurityIssue("Medium", "Supply chain verification failed",
                                     "supply_chain"))
            \o SandboxIssue(metadata)
    IN [is_secure |-> issues = << >>,
        risk_level |-> calculate_risk_level(issues),
        issues |-> issues,
        warnings |-> Warnings(metadata, current_time, build),
        check_timestamp |-> current_time]

(***************************************************************************)
(* std::sync::RwLock: any number of read guards, or one write guard.       *)
(***************************************************************************)
\* Mutant: a read guard is handed out while a write guard is held.
CanReadUnguarded == TRUE

CanRead == writer = {}
\* Mutant: a writer does not wait for the read guards to be dropped.
CanWriteIgnoringReaders == writer = {}

CanWrite == writer = {} /\ readers = {}

(***************************************************************************)
(* HashMap operations.                                                     *)
(***************************************************************************)
contains_key(map, name) == name \in DOMAIN map
len(map) == Cardinality(DOMAIN map)
keys(map) == DOMAIN map
\* Mutant: the insert replaces the table instead of adding to it.
InsertReplacing(map, name, entry) == (name :> entry)

Insert(map, name, entry) == (name :> entry) @@ map

(***************************************************************************)
(* A thread issues a call, and a call returns.                             *)
(***************************************************************************)
Begin(t) ==
    /\ pc[t] = "idle"
    /\ nops < MaxOps
    /\ nops' = nops + 1
    /\ result' = [result EXCEPT ![t] = NoResult]

\* The argument of a call besides the name, as the record of a finished call shows it.
ValidatorFns ==
    {"verify_signature", "is_approved", "verify_supply_chain", "comprehensive_check",
     "security_audit"}

CallArg(c) ==
    CASE c.op = "update_review_status" -> c.status.tag
      [] c.op = "create" -> c.type
      [] c.op \in ValidatorFns /\ "metadata" \in DOMAIN c -> c.metadata
      [] c.op \in {"check_permissions", "check_module_permissions"} ->
             c.required_permission
      [] OTHER -> "-"

\* The record of a finished call: the method, its arguments, the status and
\* value it returned, and the factory it called.
Result(c, status, value, invoked) ==
    [op |-> c.op, name |-> c.name, arg |-> CallArg(c),
     status |-> status, value |-> value, invoked |-> invoked]

Return(t, status, value, invoked) ==
    /\ result' = [result EXCEPT ![t] = Result(call[t], status, value, invoked)]
    /\ call' = [call EXCEPT ![t] = NoCall]
    /\ pc' = [pc EXCEPT ![t] = "idle"]

(***************************************************************************)
(* The writers: register, register_with_metadata, register_secure.         *)
(* The metadata is built before the write guard is taken; under the guard  *)
(* HashMap::insert stores the (metadata, factory) pair, and the guard is   *)
(* dropped when the method returns.                                        *)
(***************************************************************************)
\* module_path!() inside src/src/registry.rs
RegisterPath == "module_registry::registry"
RegisterSecurePath == "module_registry::registry"

WriteLock(t, c) ==
    /\ Begin(t)
    /\ CanWrite
    /\ writer' = {t}
    /\ call' = [call EXCEPT ![t] = c]
    /\ pc' = [pc EXCEPT ![t] = IF c.op \in {"update_review_status", "clear"}
                               THEN c.op ELSE "insert"]
    /\ UNCHANGED <<modules, committed, readers, now, REGISTRY>>

register_with_metadata_call(t, name) ==
    \E d \in DescriptorInputs, f \in Factories :
        WriteLock(t, [op |-> "register_with_metadata", name |-> name,
                      meta |-> ModuleMetadataNew(name, d.module_type, d.instantiate_fn,
                                                 d.module_path, d.struct_name),
                      factory |-> f])

register_call(t, name) ==
    \E f \in Factories :
        WriteLock(t, [op |-> "register", name |-> name,
                      meta |-> ModuleMetadataNew(name, "plugin", "factory",
                                                 RegisterPath, "Module"),
                      factory |-> f])

register_secure_call(t, name) ==
    \E f \in Factories, s \in SecureInputs :
        WriteLock(t, [op |-> "register_secure", name |-> name,
                      meta |-> ModuleMetadataSecure(name, "plugin", "factory",
                                                    RegisterSecurePath, "Module",
                                                    s.signature, s.permissions,
                                                    s.supply_chain),
                      factory |-> f])

register_with_metadata(t) == \E name \in Names : register_with_metadata_call(t, name)
register(t) == \E name \in Names : register_call(t, name)
register_secure(t) == \E name \in Names : register_secure_call(t, name)

\* Mutant: an entry that exists keeps its review status when it is registered again.
insert_metadata_keeping_review(t) ==
    /\ pc[t] = "insert"
    /\ LET name == call[t].name
           present == contains_key(modules, name)
           old == IF present THEN modules[name].factory ELSE UninitFactory
           meta == IF present
                   THEN [call[t].meta EXCEPT !.review_status =
                                                modules[name].meta.review_status]
                   ELSE call[t].meta
       IN modules' = Insert(modules, name, Entry(meta, old))
    /\ pc' = [pc EXCEPT ![t] = "insert_factory"]
    /\ UNCHANGED <<committed, writer, readers, call, result, now, nops, REGISTRY>>

\* HashMap::insert, first half: the key and the metadata are in place.
insert_metadata(t) ==
    /\ pc[t] = "insert"
    /\ LET name == call[t].name
           old == IF contains_key(modules, name) THEN modules[name].factory
                  ELSE UninitFactory
       IN modules' = Insert(modules, name, Entry(call[t].meta, old))
    /\ pc' = [pc EXCEPT ![t] = "insert_factory"]
    /\ UNCHANGED <<committed, writer, readers, call, result, now, nops, REGISTRY>>

\* HashMap::insert, second half, and the drop of the write guard on return.
insert_factory(t) ==
    /\ pc[t] = "insert_factory"
    /\ modules' = [modules EXCEPT ![call[t].name].factory = call[t].factory]
    /\ committed' = modules'
    /\ writer' = {}
    /\ Return(t, "Ok", "unit", NoFactory)
    /\ UNCHANGED <<readers, now, nops, REGISTRY>>

(***************************************************************************)
(* update_review_status and clear.                                         *)
(***************************************************************************)
update_review_status_lock(t) ==
    \E name \in Names, status \in StatusInputs :
        WriteLock(t, [op |-> "update_review_status", name |-> name, status |-> status])

\* Mutant: the entry's metadata is rebuilt around the new status.
update_review_status_rebuilding(t) ==
    /\ pc[t] = "update_review_status"
    /\ IF contains_key(modules, call[t].name)
       THEN /\ LET old == modules[call[t].name].meta
                   new == ModuleMetadataNew(old.name, old.module_type,
                                            old.instantiate_fn_name, old.module_path,
                                            old.struct_name)
               IN modules' = [modules EXCEPT ![call[t].name].meta =
                                 [new EXCEPT !.review_status = call[t].status]]
            /\ Return(t, "Ok", "unit", NoFactory)
       ELSE /\ modules' = modules
            /\ Return(t, "NotFound", "unit", NoFactory)
    /\ committed' = modules'
    /\ writer' = {}
    /\ UNCHANGED <<readers, now, nops, REGISTRY>>

\* Mutant: a Rejected verdict evicts the entry.
update_review_status_evicting(t) ==
    /\ pc[t] = "update_review_status"
    /\ IF contains_key(modules, call[t].name)
       THEN /\ modules' = IF call[t].status.tag = "Rejected"
                          THEN [n \in DOMAIN modules \ {call[t].name} |-> modules[n]]
                          ELSE [modules EXCEPT ![call[t].name].meta.review_status =
                                                  call[t].status]
            /\ Return(t, "Ok", "unit", NoFactory)
       ELSE /\ modules' = modules
            /\ Return(t, "NotFound", "unit", NoFactory)
    /\ committed' = modules'
    /\ writer' = {}
    /\ UNCHANGED <<readers, now, nops, REGISTRY>>

update_review_status(t) ==
    /\ pc[t] = "update_review_status"
    /\ IF contains_key(modules, call[t].name)
       THEN /\ modules' = [modules EXCEPT ![call[t].name].meta.review_status =
                                              call[t].status]
            /\ Return(t, "Ok", "unit", NoFactory)
       ELSE /\ modules' = modules
            /\ Return(t, "NotFound", "unit", NoFactory)
    /\ committed' = modules'
    /\ writer' = {}
    /\ UNCHANGED <<readers, now, nops, REGISTRY>>

clear_lock(t) ==
    WriteLock(t, [op |-> "clear", name |-> "*"])

\* Mutant: clear drops one entry only.
clear_one(t) ==
    /\ pc[t] = "clear"
    /\ modules' = IF modules = << >> THEN modules
                  ELSE LET gone == CHOOSE n \in DOMAIN modules : TRUE
                       IN [n \in DOMAIN modules \ {gone} |-> modules[n]]
    /\ committed' = modules'
    /\ writer' = {}
    /\ Return(t, "Ok", "unit", NoFactory)
    /\ UNCHANGED <<readers, now, nops, REGISTRY>>

clear(t) ==
    /\ pc[t] = "clear"
    /\ modules' = << >>
    /\ committed' = modules'
    /\ writer' = {}
    /\ Return(t, "Ok", "unit", NoFactory)
    /\ UNCHANGED <<readers, now, nops, REGISTRY>>

(***************************************************************************)
(* The readers.  Each takes a read guard, evaluates its body on the map    *)
(* and drops the guard when it returns.                                    *)
(***************************************************************************)
ReadLock(t, c, label) ==
    /\ Begin(t)
    /\ CanRead
    /\ readers' = readers \cup {t}
    /\ call' = [call EXCEPT ![t] = c]
    /\ pc' = [pc EXCEPT ![t] = label]
    /\ UNCHANGED <<modules, committed, writer, now, REGISTRY>>

\* A later guard of the same call (create_secure takes four in a row).
ReadRelock(t, label) ==
    /\ CanRead
    /\ readers' = readers \cup {t}
    /\ pc' = [pc EXCEPT ![t] = label]
    /\ UNCHANGED <<modules, committed, writer, call, result, now, nops, REGISTRY>>

has_module_lock(t) ==
    \E name \in Names : ReadLock(t, [op |-> "has_module", name |-> name], "read")

get_metadata_lock(t) ==
    \E name \in Names : ReadLock(t, [op |-> "get_metadata", name |-> name], "read")

count_lock(t) == ReadLock(t, [op |-> "count", name |-> "*"], "read")

list_modules_lock(t) == ReadLock(t, [op |-> "list_modules", name |-> "*"], "read")

\* get_module_names is self.list_modules().
get_module_names_lock(t) ==
    ReadLock(t, [op |-> "get_module_names", name |-> "*"], "read")

get_security_report_lock(t) ==
    ReadLock(t, [op |-> "get_security_report", name |-> "*"], "read")

has_module(map, name) == contains_key(map, name)
get_metadata(map, name) == IF contains_key(map, name) THEN Some(map[name].meta) ELSE None
count(map) == len(map)

\* Mutant: the Vec may name a key more than once.
KeyOrdersRepeating(map) == [1 .. len(map) -> keys(map)]

\* keys().cloned().collect(): a Vec with each key once, in the iteration
\* order of the HashMap, which is unspecified.
KeyOrders(map) ==
    {s \in [1 .. len(map) -> keys(map)] :
        \A i, j \in 1 .. len(map) : i # j => s[i] # s[j]}

\* The Vecs list_modules may return.
list_modules(map) == KeyOrders(map)

get_module_names(map) == list_modules(map)

\* Mutant: the report's verified flags are the validator's answers.
SecurityReportVerifying(name, metadata) ==
    [name |-> name,
     has_signature |-> IsSome(metadata.signature),
     signature_verified |-> verify_signature(metadata, now, "wrapping") = "true",
     is_approved |-> metadata.review_status.tag = "Approved",
     has_supply_chain |-> IsSome(metadata.supply_chain),
     supply_chain_verified |-> verify_supply_chain(metadata, now) = "true",
     permissions |-> metadata.permissions,
     sandbox_enabled |-> metadata.sandbox_config.enabled]

SecurityReport(name, metadata) ==
    [name |-> name,
     has_signature |-> IsSome(metadata.signature),
     signature_verified |-> IsSome(metadata.signature),
     is_approved |-> metadata.review_status.tag = "Approved",
     has_supply_chain |-> IsSome(metadata.supply_chain),
     supply_chain_verified |-> IsSome(metadata.supply_chain),
     permissions |-> metadata.permissions,
     sandbox_enabled |-> metadata.sandbox_config.enabled]

get_security_report(map) ==
    [n \in DOMAIN map |-> SecurityReport(n, map[n].meta)]

\* The values a reader may return.
ReadValues(c, map) ==
    CASE c.op = "has_module" -> {has_module(map, c.name)}
      [] c.op = "get_metadata" -> {get_metadata(map, c.name)}
      [] c.op = "count" -> {count(map)}
      [] c.op = "list_modules" -> list_modules(map)
      [] c.op = "get_module_names" -> get_module_names(map)
      [] c.op = "get_security_report" -> {get_security_report(map)}

read(t) ==
    /\ pc[t] = "read"
    /\ readers' = readers \ {t}
    /\ \E value \in ReadValues(call[t], modules) : Return(t, "Ok", value, NoFactory)
    /\ UNCHANGED <<modules, committed, writer, now, nops, REGISTRY>>

(***************************************************************************)
(* create_any, create<T> and create_with_sandbox: the lookup under the     *)
(* read guard, then the factory call.  The guard (the local `modules`)     *)
(* lives until the method returns.                                         *)
(***************************************************************************)
create_any_lock(t) ==
    \E name \in Names : ReadLock(t, [op |-> "create_any", name |-> name], "lookup")

create_lock(t) ==
    \E name \in Names, T \in TypeInputs :
        ReadLock(t, [op |-> "create", name |-> name, type |-> T], "lookup")

create_with_sandbox_lock(t) ==
    \E name \in Names :
        ReadLock(t, [op |-> "create_with_sandbox", name |-> name], "lookup")

\* Mutant: a name that is absent falls back to some entry of the map.
lookup_with_fallback(t) ==
    /\ pc[t] = "lookup"
    /\ LET found == IF contains_key(modules, call[t].name) THEN {call[t].name}
                    ELSE DOMAIN modules
       IN IF found # {}
          THEN /\ pc' = [pc EXCEPT ![t] = "factory"]
               /\ call' = [call EXCEPT ![t] =
                               [f \in DOMAIN call[t] \cup {"factory"} |->
                                   IF f = "factory"
                                   THEN modules[CHOOSE n \in found : TRUE].factory
                                   ELSE call[t][f]]]
               /\ UNCHANGED <<readers, result>>
          ELSE /\ readers' = readers \ {t}
               /\ Return(t, "NotFound", "-", NoFactory)
    /\ UNCHANGED <<modules, committed, writer, now, nops, REGISTRY>>

\* Mutant: create_with_sandbox turns a Rejected module away.
lookup_refusing_rejected(t) ==
    /\ pc[t] = "lookup"
    /\ IF contains_key(modules, call[t].name)
       THEN IF /\ call[t].op = "create_with_sandbox"
               /\ modules[call[t].name].meta.review_status.tag = "Rejected"
            THEN /\ readers' = readers \ {t}
                 /\ Return(t, "NotApproved", "-", NoFactory)
            ELSE /\ pc' = [pc EXCEPT ![t] = "factory"]
                 /\ call' = [call EXCEPT ![t] =
                                 [f \in DOMAIN call[t] \cup {"factory"} |->
                                     IF f = "factory" THEN modules[call[t].name].factory
                                     ELSE call[t][f]]]
                 /\ UNCHANGED <<readers, result>>
       ELSE /\ readers' = readers \ {t}
            /\ Return(t, "NotFound", "-", NoFactory)
    /\ UNCHANGED <<modules, committed, writer, now, nops, REGISTRY>>

\* modules.get(name).ok_or_else(..)?
lookup(t) ==
    /\ pc[t] = "lookup"
    /\ IF contains_key(modules, call[t].name)
       THEN /\ pc' = [pc EXCEPT ![t] = "factory"]
            /\ call' = [call EXCEPT ![t] =
                            [f \in DOMAIN call[t] \cup {"factory"} |->
                                IF f = "factory" THEN modules[call[t].name].factory
                                ELSE call[t][f]]]
            /\ UNCHANGED <<readers, result>>
       ELSE /\ readers' = readers \ {t}
            /\ Return(t, "NotFound", "-", NoFactory)
    /\ UNCHANGED <<modules, committed, writer, now, nops, REGISTRY>>

\* The guard dropped on return from the method that called the factory.
GuardsAfterFactory(t) == readers \ {t}

\* Mutant: a factory that failed is called a second time before the error returns.
factory_retrying(t) ==
    /\ pc[t] = "factory"
    /\ LET r == FactoryCall(call[t].factory) IN
         IF ~r.ok /\ "retried" \notin DOMAIN call[t]
         THEN /\ call' = [call EXCEPT ![t] =
                             [f \in DOMAIN call[t] \cup {"retried"} |->
                                 IF f = "retried" THEN TRUE ELSE call[t][f]]]
              /\ UNCHANGED <<pc, result, readers>>
         ELSE /\ readers' = GuardsAfterFactory(t)
              /\ IF ~r.ok
                 THEN Return(t, "ConstructionFailure", "-", call[t].factory)
                 ELSE IF call[t].op = "create" /\ r.type # call[t].type
                 THEN Return(t, "TypeMismatch", "-", call[t].factory)
                 ELSE Return(t, "Ok", r.type, call[t].factory)
    /\ UNCHANGED <<modules, committed, writer, now, nops, REGISTRY>>

\* Mutant: the downcast of create<T> is unchecked.
factory_unchecked_downcast(t) ==
    /\ pc[t] = "factory"
    /\ LET r == FactoryCall(call[t].factory) IN
         IF ~r.ok
         THEN Return(t, "ConstructionFailure", "-", call[t].factory)
         ELSE IF call[t].op = "create"
         THEN Return(t, "Ok", call[t].type, call[t].factory)
         ELSE Return(t, "Ok", r.type, call[t].factory)
    /\ readers' = GuardsAfterFactory(t)
    /\ UNCHANGED <<modules, committed, writer, now, nops, REGISTRY>>

\* factory().with_context(..), and for create<T> the downcast of the instance.
factory(t) ==
    /\ pc[t] = "factory"
    /\ LET r == FactoryCall(call[t].factory) IN
         IF ~r.ok
         THEN Return(t, "ConstructionFailure", "-", call[t].factory)
         ELSE IF call[t].op = "create" /\ r.type # call[t].type
         THEN Return(t, "TypeMismatch", "-", call[t].factory)
         ELSE Return(t, "Ok", r.type, call[t].factory)
    /\ readers' = GuardsAfterFactory(t)
    /\ UNCHANGED <<modules, committed, writer, now, nops, REGISTRY>>

(***************************************************************************)
(* create_secure: verify_module_signature, is_module_approved and          *)
(* verify_supply_chain, each under a read guard of its own, then           *)
(* create_with_sandbox.                                                    *)
(***************************************************************************)
\* passed: the gates of this call that have answered true, in order.
create_secure_lock(t) ==
    \E name \in Names :
        ReadLock(t, [op |-> "create_secure", name |-> name, passed |-> << >>],
                 "gate_signature")

GateFailure(gate) ==
    CASE gate = "gate_signature" -> "SignatureFailed"
      [] gate = "gate_approval" -> "NotApproved"
      [] gate = "gate_supply_chain" -> "SupplyChainFailed"

\* Mutant: the approval check is skipped.
AfterGateSkippingApproval(gate) ==
    CASE gate = "gate_signature" -> "want_supply_chain"
      [] gate = "gate_approval" -> "want_supply_chain"
      [] gate = "gate_supply_chain" -> "want_sandbox"

AfterGate(gate) ==
    CASE gate = "gate_signature" -> "want_approval"
      [] gate = "gate_approval" -> "want_supply_chain"
      [] gate = "gate_supply_chain" -> "want_sandbox"

GateAnswers(gate, metadata) ==
    CASE gate = "gate_signature" ->
             {verify_signature(metadata, now, b) : b \in Builds}
      [] gate = "gate_approval" -> {is_approved(metadata)}
      [] gate = "gate_supply_chain" -> {verify_supply_chain(metadata, now)}

\* Mutant: a module that fails a check of create_secure is marked Rejected.
GateRejecting(t, gate) ==
    /\ pc[t] = gate
    /\ readers' = readers \ {t}
    /\ IF ~contains_key(modules, call[t].name)
       THEN /\ Return(t, "NotFound", "-", NoFactory)
            /\ UNCHANGED <<modules, committed>>
       ELSE \E answer \in GateAnswers(gate, modules[call[t].name].meta) :
              CASE answer = "true" ->
                       /\ pc' = [pc EXCEPT ![t] = AfterGate(gate)]
                       /\ call' = [call EXCEPT ![t].passed = Append(@, gate)]
                       /\ UNCHANGED <<result, modules, committed>>
                [] answer = "false" ->
                       /\ Return(t, GateFailure(gate), "-", NoFactory)
                       /\ modules' = [modules EXCEPT ![call[t].name].meta.review_status =
                                         Rejected("create_secure", GateFailure(gate), now)]
                       /\ committed' = modules'
                [] answer = "panic" ->
                       /\ Return(t, "Panic", "-", NoFactory)
                       /\ UNCHANGED <<modules, committed>>
    /\ UNCHANGED <<writer, now, nops, REGISTRY>>

\* Mutant: a name that is absent fails the gate instead of being NotFound.
GateAbsentFails(t, gate) ==
    /\ pc[t] = gate
    /\ readers' = readers \ {t}
    /\ IF ~contains_key(modules, call[t].name)
       THEN Return(t, GateFailure(gate), "-", NoFactory)
       ELSE \E answer \in GateAnswers(gate, modules[call[t].name].meta) :
              CASE answer = "true" ->
                       /\ pc' = [pc EXCEPT ![t] = AfterGate(gate)]
                       /\ call' = [call EXCEPT ![t].passed = Append(@, gate)]
                       /\ UNCHANGED result
                [] answer = "false" -> Return(t, GateFailure(gate), "-", NoFactory)
                [] answer = "panic" -> Return(t, "Panic", "-", NoFactory)
    /\ UNCHANGED <<modules, committed, writer, now, nops, REGISTRY>>

Gate(t, gate) ==
    /\ pc[t] = gate
    /\ readers' = readers \ {t}
    /\ IF ~contains_key(modules, call[t].name)
       THEN Return(t, "NotFound", "-", NoFactory)
       ELSE \E answer \in GateAnswers(gate, modules[call[t].name].meta) :
              CASE answer = "true" ->
                       /\ pc' = [pc EXCEPT ![t] = AfterGate(gate)]
                       /\ call' = [call EXCEPT ![t].passed = Append(@, gate)]
                       /\ UNCHANGED result
                [] answer = "false" -> Return(t, GateFailure(gate), "-", NoFactory)
                [] answer = "panic" -> Return(t, "Panic", "-", NoFactory)
    /\ UNCHANGED <<modules, committed, writer, now, nops, REGISTRY>>

gate_signature(t) == Gate(t, "gate_signature")
gate_approval(t) == Gate(t, "gate_approval")
gate_supply_chain(t) == Gate(t, "gate_supply_chain")

is_module_approved_lock(t) == pc[t] = "want_approval" /\ ReadRelock(t, "gate_approval")
verify_supply_chain_lock(t) ==
    pc[t] = "want_supply_chain" /\ ReadRelock(t, "gate_supply_chain")
create_secure_sandbox_lock(t) == pc[t] = "want_sandbox" /\ ReadRelock(t, "lookup")

(***************************************************************************)
(* The security queries called on their own: verify_module_signature,      *)
(* check_module_permissions, is_module_approved and verify_supply_chain    *)
(* look the name up under a read guard and ask the SecurityValidator.      *)
(***************************************************************************)
\* What a validator function returns: the status and the value.
Outcome(value) ==
    [status |-> IF value = "panic" THEN "Panic" ELSE "Ok",
     value |-> IF value = "panic" THEN "-" ELSE value]

QueryOps ==
    {"verify_module_signature", "check_module_permissions", "is_module_approved",
     "verify_supply_chain"}

verify_module_signature_call(t) ==
    \E name \in Names :
        ReadLock(t, [op |-> "verify_module_signature", name |-> name], "query")

check_module_permissions_call(t) ==
    \E name \in Names, p \in {"system_access", "root"} :
        ReadLock(t, [op |-> "check_module_permissions", name |-> name,
                     required_permission |-> p], "query")

is_module_approved_call(t) ==
    \E name \in Names :
        ReadLock(t, [op |-> "is_module_approved", name |-> name], "query")

module_verify_supply_chain_call(t) ==
    \E name \in Names :
        ReadLock(t, [op |-> "verify_supply_chain", name |-> name], "query")

\* get(name).ok_or_else(..)?, then the validator on the entry's metadata.
QueryOutcome(c, map, current_time, build) ==
    IF ~contains_key(map, c.name) THEN [status |-> "NotFound", value |-> "-"]
    ELSE LET metadata == map[c.name].meta IN
         CASE c.op = "verify_module_signature" ->
                  Outcome(verify_signature(metadata, current_time, build))
           [] c.op = "check_module_permissions" ->
                  Outcome(check_permissions(metadata, c.required_permission))
           [] c.op = "is_module_approved" -> Outcome(is_approved(metadata))
           [] c.op = "verify_supply_chain" ->
                  Outcome(verify_supply_chain(metadata, current_time))

query(t) ==
    /\ pc[t] = "query"
    /\ readers' = readers \ {t}
    /\ \E build \in Builds :
          LET r == QueryOutcome(call[t], modules, now, build)
          IN Return(t, r.status, r.value, NoFactory)
    /\ UNCHANGED <<modules, committed, writer, now, nops, REGISTRY>>

(***************************************************************************)
(* The clock.                                                              *)
(***************************************************************************)
Tick ==
    /\ now < StartTime + MaxTick
    /\ now' = now + 1
    /\ UNCHANGED <<modules, committed, writer, readers, pc, call, result, nops, REGISTRY>>

(***************************************************************************)
(* SecurityValidator called directly.  Its functions are public and take   *)
(* any ModuleMetadata, whose fields are public too.                        *)
(***************************************************************************)
SignatureInputs ==
    {None, SignatureAtExpiry, SignatureAhead,
     Some(ModuleSignature(StartTime, DEFAULT_SIGNATURE_ALGORITHM, "sig", "key")),
     Some(ModuleSignature(StartTime, "MD5", "sig", "key")),
     Some(ModuleSignature(StartTime, DEFAULT_SIGNATURE_ALGORITHM, "", "key")),
     Some(ModuleSignature(StartTime, DEFAULT_SIGNATURE_ALGORITHM, "sig", ""))}

ReviewInputs ==
    {Pending, InProgress, Approved("alice", StartTime), Rejected("bob", "unsafe", StartTime)}

SupplyChainInputs ==
    {None, GoodSupplyChain,
     Some(SupplyChainInfo("", "abc123", StartTime)),
     Some(SupplyChainInfo("https://example.org/repo", "", StartTime)),
     Some(SupplyChainInfo("https://example.org/repo", "abc123", StartTime + 1))}

PermissionsInputs == {ModulePermissionsDefault, SystemPermissions}

SandboxInputs ==
    {SandboxConfigDefault, [SandboxConfigDefault EXCEPT !.enabled = FALSE]}

Metadata(sig, perms, chain, review, sandbox) ==
    [ModuleMetadataSecure("a", "plugin", "factory", RegisterSecurePath, "Module",
                          sig, perms, chain)
        EXCEPT !.review_status = review, !.sandbox_config = sandbox]

\* Every combination of the fields the validator reads.
MetadataInputs ==
    {Metadata(sig, perms, chain, review, sandbox) :
        sig \in SignatureInputs, perms \in PermissionsInputs,
        chain \in SupplyChainInputs, review \in ReviewInputs,
        sandbox \in SandboxInputs}

\* The inputs of the single checks: the field the check reads takes every
\* value, next to two settings of the other fields.
SignatureMetadataInputs ==
    {Metadata(sig, ModulePermissionsDefault, None, Pending, SandboxConfigDefault) :
        sig \in SignatureInputs}
    \cup {Metadata(sig, SystemPermissions, GoodSupplyChain,
                   Approved("alice", StartTime), SandboxConfigDefault) :
            sig \in SignatureInputs}

ReviewMetadataInputs ==
    {Metadata(None, ModulePermissionsDefault, None, review, SandboxConfigDefault) :
        review \in ReviewInputs}
    \cup {Metadata(SignatureAtExpiry, SystemPermissions, GoodSupplyChain, review,
                   SandboxConfigDefault) : review \in ReviewInputs}

SupplyChainMetadataInputs ==
    {Metadata(None, ModulePermissionsDefault, chain, Pending, SandboxConfigDefault) :
        chain \in SupplyChainInputs}
    \cup {Metadata(SignatureAtExpiry, SystemPermissions, chain,
                   Approved("alice", StartTime), SandboxConfigDefault) :
            chain \in SupplyChainInputs}

\* Permissions with no flag, each single flag, and every flag set.
SingleFlagPermissions ==
    {[ModulePermissionsDefault EXCEPT ![f] = TRUE] :
        f \in {"filesystem_access", "network_access", "process_spawn", "env_access",
               "system_access"}}

AllPermissions ==
    [filesystem_access |-> TRUE, network_access |-> TRUE, process_spawn |-> TRUE,
     env_access |-> TRUE, system_access |-> TRUE,
     memory_limit_mb |-> DEFAULT_MEMORY_LIMIT_MB,
     cpu_limit_percent |-> DEFAULT_CPU_LIMIT_PERCENT,
     timeout_seconds |-> DEFAULT_TIMEOUT_SECONDS]

PermissionsMetadataInputs ==
    {Metadata(None, perms, None, Pending, SandboxConfigDefault) :
        perms \in PermissionsInputs \cup SingleFlagPermissions \cup {AllPermissions}}

RequiredPermissionInputs ==
    {"filesystem_access", "network_access", "process_spawn", "env_access",
     "system_access", "root", "memory_limit_mb", "cpu_limit_percent",
     "timeout_seconds", "", "SYSTEM_ACCESS"}

ValidatorCall(t, c) ==
    /\ Begin(t)
    /\ call' = [call EXCEPT ![t] = c]
    /\ pc' = [pc EXCEPT ![t] = "validate"]
    /\ UNCHANGED <<modules, committed, writer, readers, now, REGISTRY>>

verify_signature_call(t) ==
    \E m \in SignatureMetadataInputs :
        ValidatorCall(t, [op |-> "verify_signature", name |-> m.name, metadata |-> m])

check_permissions_call(t) ==
    \E m \in PermissionsMetadataInputs, p \in RequiredPermissionInputs :
        ValidatorCall(t, [op |-> "check_permissions", name |-> m.name,
                          metadata |-> m, required_permission |-> p])

is_approved_call(t) ==
    \E m \in ReviewMetadataInputs :
        ValidatorCall(t, [op |-> "is_approved", name |-> m.name, metadata |-> m])

verify_supply_chain_call(t) ==
    \E m \in SupplyChainMetadataInputs :
        ValidatorCall(t, [op |-> "verify_supply_chain", name |-> m.name, metadata |-> m])

comprehensive_check_call(t) ==
    \E m \in MetadataInputs :
        ValidatorCall(t, [op |-> "comprehensive_check", name |-> m.name, metadata |-> m])

ValidatorOutcome(c, current_time, build) ==
    CASE c.op = "verify_signature" ->
             Outcome(verify_signature(c.metadata, current_time, build))
      [] c.op = "check_permissions" ->
             Outcome(check_permissions(c.metadata, c.required_permission))
      [] c.op = "is_approved" -> Outcome(is_approved(c.metadata))
      [] c.op = "verify_supply_chain" ->
             Outcome(verify_supply_chain(c.metadata, current_time))
      [] c.op = "comprehensive_check" ->
             IF verify_signature(c.metadata, current_time, build) = "panic"
             THEN Outcome("panic")
             ELSE [status |-> "Ok",
                   value |-> comprehensive_check(c.metadata, current_time, build)]

\* The function runs: it reads the clock and returns.
validate(t) ==
    /\ pc[t] = "validate"
    /\ \E build \in Builds :
          LET r == ValidatorOutcome(call[t], now, build)
          IN Return(t, r.status, r.value, NoFactory)
    /\ UNCHANGED <<modules, committed, writer, readers, now, nops, REGISTRY>>

(***************************************************************************)
(* security_audit: under one read guard, comprehensive_check of every      *)
(* entry's metadata.                                                       *)
(***************************************************************************)
\* metadata: what the loop reads, the metadata of every entry under the guard.
security_audit_lock(t) ==
    ReadLock(t, [op |-> "security_audit", name |-> "*",
                 metadata |-> [n \in DOMAIN modules |-> modules[n].meta]], "audit")

AuditPanics(map, current_time, build) ==
    \E n \in DOMAIN map : verify_signature(map[n].meta, current_time, build) = "panic"

AuditResults(map, current_time, build) ==
    [n \in DOMAIN map |-> comprehensive_check(map[n].meta, current_time, build)]

security_audit(t) ==
    /\ pc[t] = "audit"
    /\ readers' = readers \ {t}
    /\ \E build \in Builds :
          IF AuditPanics(modules, now, build)
          THEN Return(t, "Panic", "-", NoFactory)
          ELSE Return(t, "Ok", AuditResults(modules, now, build), NoFactory)
    /\ UNCHANGED <<modules, committed, writer, now, nops, REGISTRY>>

(***************************************************************************)
(* ModuleRegistry::global(): REGISTRY.get_or_init(closure).  The closure   *)
(* builds a registry and inserts every ModuleRegistration of the           *)
(* inventory; OnceLock runs one closure and parks the other first callers  *)
(* until the value is set.                                                 *)
(***************************************************************************)
ModuleRegistration(name, struct_name, instantiate_fn_name, factory_fn) ==
    [name |-> name, module_type |-> "module",
     instantiate_fn_name |-> instantiate_fn_name, module_path |-> "plugins",
     struct_name |-> struct_name, factory |-> factory_fn]

\* The inventories a process can be linked with.
InventoryInputs ==
    {<< >>,
     <<ModuleRegistration("a", "A", "create_uppercase", "create_uppercase")>>,
     <<ModuleRegistration("a", "A", "create_uppercase", "create_uppercase"),
       ModuleRegistration("b", "B", "create_failing", "create_failing")>>,
     <<ModuleRegistration("a", "A", "create_uppercase", "create_uppercase"),
       ModuleRegistration("a", "A2", "create_failing", "create_failing")>>}

InitGlobal ==
    /\ modules = << >>
    /\ committed = << >>
    /\ writer = {}
    /\ readers = {}
    /\ pc = [t \in Threads |-> "idle"]
    /\ call = [t \in Threads |-> NoCall]
    /\ result = [t \in Threads |-> NoResult]
    /\ now = StartTime
    /\ nops = 0
    /\ \E inventory \in InventoryInputs : REGISTRY = OnceLockNew(inventory)

global_call(t) ==
    /\ Begin(t)
    /\ call' = [call EXCEPT ![t] = [op |-> "global", name |-> "*"]]
    /\ pc' = [pc EXCEPT ![t] = "get_or_init"]
    /\ UNCHANGED <<modules, committed, writer, readers, now, REGISTRY>>

\* Mutant: a first caller starts the closure while another is still running it.
CanInitUnguarded == REGISTRY.state # "complete"

\* OnceLock lets a caller run the closure only when no value is set and no
\* other caller is running one.
CanInit == REGISTRY.state = "uninit"

\* get_or_init: the value if it is set; else run the closure, starting with
\* Self::new(); a caller that finds the closure running waits.
get_or_init(t) ==
    /\ pc[t] = "get_or_init"
    /\ IF REGISTRY.state = "complete"
       THEN /\ Return(t, "Ok", REGISTRY.instance, NoFactory)
            /\ UNCHANGED <<modules, committed, REGISTRY>>
       ELSE /\ CanInit
            /\ REGISTRY' = [REGISTRY EXCEPT !.state = "running",
                                            !.inits = @ + 1,
                                            !.instance = <<"registry", REGISTRY.inits + 1>>,
                                            !.next = 1]
            /\ modules' = << >>
            /\ committed' = << >>
            /\ pc' = [pc EXCEPT ![t] = "init_loop"]
            /\ UNCHANGED <<call, result>>
    /\ UNCHANGED <<writer, readers, now, nops>>

\* One turn of the loop over inventory::iter: build the metadata with
\* ModuleMetadata::new and insert it with the record's factory.
global_insert(t) ==
    /\ pc[t] = "init_loop"
    /\ REGISTRY.next <= Len(REGISTRY.inventory)
    /\ CanWrite
    /\ LET reg == REGISTRY.inventory[REGISTRY.next]
           metadata == ModuleMetadataNew(reg.name, reg.module_type,
                                         reg.instantiate_fn_name, reg.module_path,
                                         reg.struct_name)
       IN modules' = Insert(modules, metadata.name, Entry(metadata, reg.factory))
    /\ committed' = modules'
    /\ REGISTRY' = [REGISTRY EXCEPT !.next = @ + 1]
    /\ UNCHANGED <<writer, readers, pc, call, result, now, nops>>

\* The closure returns the registry; OnceLock stores it and hands it out.
global_publish(t) ==
    /\ pc[t] = "init_loop"
    /\ REGISTRY.next > Len(REGISTRY.inventory)
    /\ REGISTRY' = [REGISTRY EXCEPT !.state = "complete"]
    /\ Return(t, "Ok", REGISTRY.instance, NoFactory)
    /\ UNCHANGED <<modules, committed, writer, readers, now, nops>>

\* Methods called on ModuleRegistry::global() once it holds its value.
Initialised == REGISTRY.state = "complete"

global_register(t) == Initialised /\ register(t)
global_register_with_metadata(t) == Initialised /\ register_with_metadata(t)
global_register_secure(t) == Initialised /\ register_secure(t)
global_update_review_status_lock(t) == Initialised /\ update_review_status_lock(t)
global_clear_lock(t) == Initialised /\ clear_lock(t)
global_count_lock(t) == Initialised /\ count_lock(t)
global_has_module_lock(t) == Initialised /\ has_module_lock(t)
global_get_metadata_lock(t) == Initialised /\ get_metadata_lock(t)

(***************************************************************************)
(* Spec: the registry core.  Two threads call register,                    *)
(* register_with_metadata, update_review_status, clear, the queries and    *)
(* the plain create methods.                                               *)
(***************************************************************************)
Next ==
    \E t \in Callers :
        \/ register(t)
        \/ register_with_metadata(t)
        \/ insert_metadata(t)
        \/ insert_factory(t)
        \/ update_review_status_lock(t)
        \/ update_review_status(t)
        \/ clear_lock(t)
        \/ clear(t)
        \/ has_module_lock(t)
        \/ get_metadata_lock(t)
        \/ count_lock(t)
        \/ list_modules_lock(t)
        \/ get_module_names_lock(t)
        \/ read(t)
        \/ create_any_lock(t)
        \/ create_lock(t)
        \/ create_with_sandbox_lock(t)
        \/ lookup(t)
        \/ factory(t)

Spec == Init /\ [][Next]_vars

(***************************************************************************)
(* SpecSecure: the secure path.  Two threads call register_secure,         *)
(* update_review_status and create_secure while the clock advances.        *)
(***************************************************************************)
NextSecure ==
    \/ \E t \in Callers :
        \/ register_secure(t)
        \/ insert_metadata(t)
        \/ insert_factory(t)
        \/ update_review_status_lock(t)
        \/ update_review_status(t)
        \/ create_secure_lock(t)
        \/ gate_signature(t)
        \/ is_module_approved_lock(t)
        \/ gate_approval(t)
        \/ verify_supply_chain_lock(t)
        \/ gate_supply_chain(t)
        \/ create_secure_sandbox_lock(t)
        \/ lookup(t)
        \/ factory(t)
    \/ Tick

SpecSecure == Init /\ [][NextSecure]_vars

(***************************************************************************)
(* SpecRegister: registration and re-registration through the three        *)
(* register methods, with update_review_status and create_any.             *)
(***************************************************************************)
NextRegister ==
    \E t \in Callers :
        \/ register(t)
        \/ register_with_metadata(t)
        \/ register_secure(t)
        \/ insert_metadata(t)
        \/ insert_factory(t)
        \/ update_review_status_lock(t)
        \/ update_review_status(t)
        \/ create_any_lock(t)
        \/ lookup(t)
        \/ factory(t)

SpecRegister == Init /\ [][NextRegister]_vars

(***************************************************************************)
(* SpecRace: NumRacers threads, each registering a name of its own once,   *)
(* through any of the three register methods, on the empty registry.       *)
(***************************************************************************)
RaceName(t) == NameIds[CHOOSE i \in 1 .. NumRacers : ThreadIds[i] = t]

race_register(t) == result[t] = NoResult /\ register_call(t, RaceName(t))
race_register_with_metadata(t) ==
    result[t] = NoResult /\ register_with_metadata_call(t, RaceName(t))
race_register_secure(t) == result[t] = NoResult /\ register_secure_call(t, RaceName(t))

NextRace ==
    \E t \in Racers :
        \/ race_register(t)
        \/ race_register_with_metadata(t)
        \/ race_register_secure(t)
        \/ insert_metadata(t)
        \/ insert_factory(t)

SpecRace == Init /\ [][NextRace]_vars

(***************************************************************************)
(* SpecValidator: one thread calls the functions of SecurityValidator on   *)
(* metadata of every shape while the clock advances.                       *)
(***************************************************************************)
ValidatorThreads == {"t1"}

NextValidator ==
    \/ \E t \in ValidatorThreads :
        \/ verify_signature_call(t)
        \/ check_permissions_call(t)
        \/ is_approved_call(t)
        \/ verify_supply_chain_call(t)
        \/ comprehensive_check_call(t)
        \/ validate(t)
    \/ Tick

SpecValidator == Init /\ [][NextValidator]_vars

(***************************************************************************)
(* SpecAudit: each name is registered at most once and approved at most    *)
(* once, so an entry's metadata that is the same at two moments has not    *)
(* changed between them; two threads run security_audit while the clock    *)
(* advances.                                                               *)
(***************************************************************************)
audit_register_secure(t) ==
    \E name \in Names : name \notin DOMAIN modules /\ register_secure_call(t, name)

audit_approve(t) ==
    \E name \in Names :
        /\ name \in DOMAIN modules
        /\ modules[name].meta.review_status = Pending
        /\ WriteLock(t, [op |-> "update_review_status", name |-> name,
                         status |-> Approved("alice", StartTime)])

\* comprehensive_check called directly, on metadata the caller keeps as it is.
AuditMetadataInputs ==
    {Metadata(None, ModulePermissionsDefault, None, Pending, SandboxConfigDefault),
     Metadata(SignatureAtExpiry, SystemPermissions, GoodSupplyChain,
              Approved("alice", StartTime), SandboxConfigDefault),
     Metadata(SignatureAhead, ModulePermissionsDefault,
              Some(SupplyChainInfo("https://example.org/repo", "abc123", StartTime + 1)),
              Approved("alice", StartTime), SandboxConfigDefault)}

audit_comprehensive_check(t) ==
    \E m \in AuditMetadataInputs :
        ValidatorCall(t, [op |-> "comprehensive_check", name |-> m.name, metadata |-> m])

NextAudit ==
    \/ \E t \in Callers :
        \/ audit_register_secure(t)
        \/ insert_metadata(t)
        \/ insert_factory(t)
        \/ audit_approve(t)
        \/ update_review_status(t)
        \/ security_audit_lock(t)
        \/ security_audit(t)
        \/ audit_comprehensive_check(t)
        \/ validate(t)
    \/ Tick

SpecAudit == Init /\ [][NextAudit]_vars

(***************************************************************************)
(* SpecGlobal: two threads call global() and then register, clear and      *)
(* query the registry it returns.                                          *)
(***************************************************************************)
NextGlobal ==
    \E t \in Callers :
        \/ global_call(t)
        \/ get_or_init(t)
        \/ global_insert(t)
        \/ global_publish(t)
        \/ global_register(t)
        \/ global_register_with_metadata(t)
        \/ insert_metadata(t)
        \/ insert_factory(t)
        \/ global_clear_lock(t)
        \/ clear(t)
        \/ global_count_lock(t)
        \/ global_has_module_lock(t)
        \/ global_get_metadata_lock(t)
        \/ read(t)

SpecGlobal == InitGlobal /\ [][NextGlobal]_vars

(***************************************************************************)
(* SpecQuery: two threads call register_secure, update_review_status and   *)
(* clear, the four security queries, create_with_sandbox and create_secure.*)
(***************************************************************************)
NextQuery ==
    \E t \in Callers :
        \/ register_secure(t)
        \/ insert_metadata(t)
        \/ insert_factory(t)
        \/ update_review_status_lock(t)
        \/ update_review_status(t)
        \/ clear_lock(t)
        \/ clear(t)
        \/ verify_module_signature_call(t)
        \/ check_module_permissions_call(t)
        \/ is_module_approved_call(t)
        \/ module_verify_supply_chain_call(t)
        \/ query(t)
        \/ create_with_sandbox_lock(t)
        \/ create_secure_lock(t)
        \/ gate_signature(t)
        \/ is_module_approved_lock(t)
        \/ gate_approval(t)
        \/ verify_supply_chain_lock(t)
        \/ gate_supply_chain(t)
        \/ create_secure_sandbox_lock(t)
        \/ lookup(t)
        \/ factory(t)

SpecQuery == Init /\ [][NextQuery]_vars

(***************************************************************************)
(* SpecCreate: the three untyped create methods.  Two threads call         *)
(* register_secure, update_review_status, create_any, create_with_sandbox  *)
(* and create_secure.                                                      *)
(***************************************************************************)
NextCreate ==
    \E t \in Callers :
        \/ register_secure(t)
        \/ insert_metadata(t)
        \/ insert_factory(t)
        \/ update_review_status_lock(t)
        \/ update_review_status(t)
        \/ create_any_lock(t)
        \/ create_with_sandbox_lock(t)
        \/ create_secure_lock(t)
        \/ gate_signature(t)
        \/ is_module_approved_lock(t)
        \/ gate_approval(t)
        \/ verify_supply_chain_lock(t)
        \/ gate_supply_chain(t)
        \/ create_secure_sandbox_lock(t)
        \/ lookup(t)
        \/ factory(t)

SpecCreate == Init /\ [][NextCreate]_vars

(***************************************************************************)
(* SpecLifecycle: every method of one registry, in a sequential history.   *)
(* One thread calls the three register methods, update_review_status,      *)
(* clear, the create methods, the queries, the report and the audit.       *)
(***************************************************************************)
LifecycleThreads == {"t1"}

NextLifecycle ==
    \E t \in LifecycleThreads :
        \/ register(t)
        \/ register_with_metadata(t)
        \/ register_secure(t)
        \/ insert_metadata(t)
        \/ insert_factory(t)
        \/ update_review_status_lock(t)
        \/ update_review_status(t)
        \/ clear_lock(t)
        \/ clear(t)
        \/ has_module_lock(t)
        \/ get_metadata_lock(t)
        \/ count_lock(t)
        \/ list_modules_lock(t)
        \/ get_module_names_lock(t)
        \/ get_security_report_lock(t)
        \/ read(t)
        \/ verify_module_signature_call(t)
        \/ check_module_permissions_call(t)
        \/ is_module_approved_call(t)
        \/ module_verify_supply_chain_call(t)
        \/ query(t)
        \/ security_audit_lock(t)
        \/ security_audit(t)
        \/ create_any_lock(t)
        \/ create_lock(t)
        \/ create_with_sandbox_lock(t)
        \/ create_secure_lock(t)
        \/ gate_signature(t)
        \/ is_module_approved_lock(t)
        \/ gate_approval(t)
        \/ verify_supply_chain_lock(t)
        \/ gate_supply_chain(t)
        \/ create_secure_sandbox_lock(t)
        \/ lookup(t)
        \/ factory(t)

SpecLifecycle == Init /\ [][NextLifecycle]_vars

(***************************************************************************)
(* SpecReport: get_security_report and security_audit over entries whose   *)
(* signature and supply chain are absent, valid, stale or malformed.  Two  *)
(* threads call register_secure, update_review_status, clear,              *)
(* get_security_report and security_audit while the clock advances.        *)
(***************************************************************************)
ReportInputs ==
    {[signature |-> None, permissions |-> ModulePermissionsDefault,
      supply_chain |-> None],
     [signature |-> Some(ModuleSignature(StartTime, "MD5", "", "")),
      permissions |-> SystemPermissions,
      supply_chain |-> Some(SupplyChainInfo("", "", StartTime))],
     [signature |-> SignatureAtExpiry, permissions |-> ModulePermissionsDefault,
      supply_chain |-> GoodSupplyChain],
     [signature |-> SignatureAhead, permissions |-> ModulePermissionsDefault,
      supply_chain |->
          Some(SupplyChainInfo("https://example.org/repo", "abc123", StartTime + 1))]}

report_register_secure(t) ==
    \E name \in Names, s \in ReportInputs :
        WriteLock(t, [op |-> "register_secure", name |-> name,
                      meta |-> ModuleMetadataSecure(name, "plugin", "factory",
                                                    RegisterSecurePath, "Module",
                                                    s.signature, s.permissions,
                                                    s.supply_chain),
                      factory |-> "create_uppercase"])

NextReport ==
    \/ \E t \in Callers :
        \/ report_register_secure(t)
        \/ insert_metadata(t)
        \/ insert_factory(t)
        \/ update_review_status_lock(t)
        \/ update_review_status(t)
        \/ clear_lock(t)
        \/ clear(t)
        \/ get_security_report_lock(t)
        \/ read(t)
        \/ security_audit_lock(t)
        \/ security_audit(t)
    \/ Tick

SpecReport == Init /\ [][NextReport]_vars

(***************************************************************************)
(* SpecInterference: create_secure against writers.  The registry starts   *)
(* with one entry that register_secure stored with a fresh signature and   *)
(* a supply chain and that update_review_status approved; two threads      *)
(* call create_secure, update_review_status, register, register_secure     *)
(* and clear.                                                              *)
(***************************************************************************)
ApprovedEntry ==
    Entry([ModuleMetadataSecure("a", "plugin", "factory", RegisterSecurePath, "Module",
                                SignatureAtExpiry, ModulePermissionsDefault,
                                GoodSupplyChain)
              EXCEPT !.review_status = Approved("alice", StartTime)],
          "create_uppercase")

InitApproved ==
    /\ modules = [n \in {"a"} |-> ApprovedEntry]
    /\ committed = modules
    /\ writer = {}
    /\ readers = {}
    /\ pc = [t \in Threads |-> "idle"]
    /\ call = [t \in Threads |-> NoCall]
    /\ result = [t \in Threads |-> NoResult]
    /\ now = StartTime
    /\ nops = 0
    /\ REGISTRY = OnceLockNew(<< >>)

NextInterference ==
    \E t \in Callers :
        \/ register(t)
        \/ register_secure(t)
        \/ insert_metadata(t)
        \/ insert_factory(t)
        \/ update_review_status_lock(t)
        \/ update_review_status(t)
        \/ clear_lock(t)
        \/ clear(t)
        \/ create_secure_lock(t)
        \/ gate_signature(t)
        \/ is_module_approved_lock(t)
        \/ gate_approval(t)
        \/ verify_supply_chain_lock(t)
        \/ gate_supply_chain(t)
        \/ create_secure_sandbox_lock(t)
        \/ lookup(t)
        \/ factory(t)

SpecInterference == InitApproved /\ [][NextInterference]_vars

(***************************************************************************)
(* SpecWriters: every path that stores or changes an entry, on the global  *)
(* registry.  Two threads call global(), which populates the registry from *)
(* the inventory, and then register, register_with_metadata,               *)
(* register_secure, update_review_status, clear and get_metadata.          *)
(***************************************************************************)
NextWriters ==
    \E t \in Callers :
        \/ global_call(t)
        \/ get_or_init(t)
        \/ global_insert(t)
        \/ global_publish(t)
        \/ global_register(t)
        \/ global_register_with_metadata(t)
        \/ global_register_secure(t)
        \/ insert_metadata(t)
        \/ insert_factory(t)
        \/ global_update_review_status_lock(t)
        \/ update_review_status(t)
        \/ global_clear_lock(t)
        \/ clear(t)
        \/ global_get_metadata_lock(t)
        \/ read(t)

SpecWriters == InitGlobal /\ [][NextWriters]_vars

(***************************************************************************)
(* Properties.                                                             *)
(***************************************************************************)
GatePcs == {"gate_signature", "gate_approval", "gate_supply_chain"}
GateErrors == {"SignatureFailed", "NotApproved", "SupplyChainFailed"}

\* Thread t's call returns status in this step without having called a factory.
FailsWith(t, status) ==
    /\ pc'[t] = "idle"
    /\ result'[t].status = status
    /\ result'[t].invoked = NoFactory

\* One step of create_secure at a gate, for a registered name.
C1_GateStep(t) ==
    LET m == modules[call[t].name].meta IN
    /\ pc[t] = "gate_signature" =>
          /\ call[t].passed = << >>
          /\ (\A b \in Builds : verify_signature(m, now, b) = "false")
                => FailsWith(t, "SignatureFailed")
    /\ pc[t] = "gate_approval" =>
          /\ call[t].passed = <<"gate_signature">>
          /\ m.review_status.tag # "Approved" => FailsWith(t, "NotApproved")
    /\ pc[t] = "gate_supply_chain" =>
          /\ call[t].passed = <<"gate_signature", "gate_approval">>
          /\ verify_supply_chain(m, now) = "false" => FailsWith(t, "SupplyChainFailed")
    /\ pc'[t] = "idle" /\ result'[t].status \in GateErrors =>
          result'[t].status = CASE pc[t] = "gate_signature" -> "SignatureFailed"
                                [] pc[t] = "gate_approval" -> "NotApproved"
                                [] pc[t] = "gate_supply_chain" -> "SupplyChainFailed"

C1_NoFactoryOnFailure ==
    \A t \in Threads :
        (result[t].op = "create_secure" /\ result[t].status \in GateErrors)
            => result[t].invoked = NoFactory

\* C1: create_secure evaluates the signature gate, then the approval gate, then
\* the supply-chain gate; a call at a gate has passed exactly the gates before
\* it; the first gate that answers false ends the call with that gate's error
\* (the signature gate whatever the review status and the supply chain are),
\* and a call that ends with a gate error has not called the factory.
C1_FirstFailingGateWins ==
    /\ []C1_NoFactoryOnFailure
    /\ [][\A t \in Threads :
            (pc[t] \in GatePcs /\ pc'[t] # pc[t] /\ call[t].name \in DOMAIN modules)
                => C1_GateStep(t)]_vars

\* A create_secure that failed at the signature gate on an entry that is
\* Approved and whose supply chain verifies.
C1_Witness ==
    \E t \in Threads :
        /\ result[t].op = "create_secure"
        /\ result[t].status = "SignatureFailed"
        /\ result[t].name \in DOMAIN modules
        /\ LET m == modules[result[t].name].meta IN
             /\ ~IsSome(m.signature)
             /\ m.review_status.tag = "Approved"
             /\ verify_supply_chain(m, now) = "true"

\* C2 (as claimed): while a factory runs, the calling thread holds no guard of
\* the registry lock, so a writer can take the write guard.
C2_FactoryRunsUnlocked ==
    \A t \in Threads : pc[t] = "factory" => (t \notin readers /\ CanWrite)

RegisterOps == {"register", "register_with_metadata", "register_secure"}

\* C3: once every racer has returned from registering its own name on the
\* initially empty registry, count() is the number of racers and has_module
\* holds for each racer's name.
C3_NoLostWrites ==
    (\A t \in Racers : pc[t] = "idle" /\ result[t] # NoResult)
        => /\ Cardinality(DOMAIN modules) = Cardinality(Racers)
           /\ \A t \in Racers : RaceName(t) \in DOMAIN modules

\* Every racer has returned from its register call.
C3_Witness ==
    /\ Cardinality(Racers) >= 2
    /\ \A t \in Racers :
          /\ pc[t] = "idle"
          /\ result[t].op \in RegisterOps
          /\ result[t].name = RaceName(t)

\* C4: a thread holding a read guard sees the map exactly as the last
\* completed write left it, with every entry whole (metadata and factory of
\* a finished insert), never a write in progress.
C4_ReadersSeeCommitted ==
    \A t \in Threads :
        t \in readers =>
            /\ modules = committed
            /\ \A n \in DOMAIN modules : modules[n].factory \in Factories

\* A reader holds its guard on a non-empty map while the other thread has
\* finished a write.
C4_Witness ==
    \E t, u \in Threads :
        /\ t # u
        /\ t \in readers
        /\ modules # << >>
        /\ result[u].op \in RegisterOps \cup {"update_review_status", "clear"}

\* The return of a register call of a name that was absent.
C5_RegisterStep(t) ==
    LET name == call[t].name IN
    /\ Cardinality(DOMAIN modules') = Cardinality(DOMAIN committed) + 1
    /\ name \in DOMAIN modules'
    /\ \A other \in Names \ {name} :
          (other \in DOMAIN modules') = (other \in DOMAIN committed)

\* Two calls were made, one per thread, registering distinct names.
C5_TwoRegistered ==
    /\ nops = 2
    /\ \A t \in Callers : pc[t] = "idle" /\ result[t].op \in RegisterOps
    /\ \A t, u \in Callers : t # u => result[t].name # result[u].name

\* C5: a new registry has count() = 0; a register call of an absent name
\* raises count() by one, makes has_module true for it and leaves the
\* presence of every other name as it was; after registering two distinct
\* names count() = 2 and has_module is true for exactly those two.
C5_RegisterAddsOne ==
    /\ Cardinality(DOMAIN modules) = 0
    /\ [](C5_TwoRegistered =>
            /\ Cardinality(DOMAIN modules) = 2
            /\ DOMAIN modules = {result[t].name : t \in Callers})
    /\ [][\A t \in Threads :
            (pc[t] = "insert_factory" /\ pc'[t] = "idle"
             /\ call[t].name \notin DOMAIN committed) => C5_RegisterStep(t)]_vars

C5_Witness == C5_TwoRegistered

\* The return of a register call of a name that was present.
C6_ReregisterStep(t) ==
    LET name == call[t].name IN
    /\ DOMAIN modules' = DOMAIN committed
    /\ modules'[name].meta = call[t].meta
    /\ modules'[name].meta.review_status = Pending
    /\ modules'[name].factory = call[t].factory
    /\ \A other \in DOMAIN committed \ {name} : modules'[other] = committed[other]

\* C6: registering a name that is present (through register,
\* register_with_metadata or register_secure) keeps the key set and count(),
\* and leaves under the name exactly the metadata and the factory of the new
\* call, with review_status Pending whatever the old entry's was; a create_any
\* calls the factory the entry holds at that time.
C6_LastWriteWins ==
    /\ [][\A t \in Threads :
            (pc[t] = "insert_factory" /\ pc'[t] = "idle"
             /\ call[t].name \in DOMAIN committed) => C6_ReregisterStep(t)]_vars
    /\ [][\A t \in Threads :
            (pc[t] = "factory" /\ pc'[t] = "idle")
                => /\ call[t].name \in DOMAIN modules
                   /\ result'[t].invoked = modules[call[t].name].factory]_vars

\* A name was registered, approved, and then registered again.
C6_Witness ==
    \E t, u \in Threads :
        /\ result[u].op = "update_review_status"
        /\ result[u].status = "Ok"
        /\ result[u].arg = "Approved"
        /\ result[t].op \in RegisterOps
        /\ result[t].name = result[u].name
        /\ modules[result[t].name].meta.review_status = Pending

\* C7: create_any of a name that is not registered returns NotFound without
\* calling a factory and leaves the map as it is; a factory is only ever
\* called for a name that is registered.
C7_CreateAnyNotFound ==
    /\ [](\A t \in Threads :
            pc[t] = "factory" => call[t].name \in DOMAIN modules)
    /\ [][\A t \in Threads :
            (pc[t] = "lookup" /\ pc'[t] # "lookup" /\ call[t].op = "create_any"
             /\ call[t].name \notin DOMAIN modules)
                => (FailsWith(t, "NotFound") /\ modules' = modules)]_vars

\* create_any returned NotFound while another name is registered.
C7_Witness ==
    \E t \in Threads :
        /\ result[t].op = "create_any"
        /\ result[t].status = "NotFound"
        /\ result[t].name \notin DOMAIN modules
        /\ modules # << >>

\* C8: when clear returns the map is empty, whatever it held: count() = 0 and
\* has_module is false for every name; a create_any of a name that is absent,
\* as every name is after clear, returns NotFound without calling a factory.
C8_ClearEmpties ==
    /\ [][\A t \in Threads :
            (pc[t] = "clear" /\ pc'[t] = "idle")
                => /\ Cardinality(DOMAIN modules') = 0
                   /\ \A n \in Names : n \notin DOMAIN modules']_vars
    /\ [][\A t \in Threads :
            (pc[t] = "lookup" /\ pc'[t] # "lookup"
             /\ call[t].name \notin DOMAIN modules) => FailsWith(t, "NotFound")]_vars

\* clear has emptied a map in which the other thread had registered a name.
C8_Witness ==
    \E t, u \in Threads :
        /\ result[t].op = "clear"
        /\ result[u].op \in RegisterOps
        /\ modules = << >>

MetadataFields == DOMAIN ModuleMetadataNew("n", "t", "f", "p", "s")

\* The return of update_review_status.
C9_UpdateStep(t) ==
    LET name == call[t].name IN
    IF name \in DOMAIN modules
    THEN /\ result'[t].status = "Ok"
         /\ DOMAIN modules' = DOMAIN modules
         /\ modules'[name].meta.review_status = call[t].status
         /\ \A f \in MetadataFields \ {"review_status"} :
               modules'[name].meta[f] = modules[name].meta[f]
         /\ modules'[name].factory = modules[name].factory
         /\ \A other \in DOMAIN modules \ {name} : modules'[other] = modules[other]
    ELSE /\ result'[t].status = "NotFound"
         /\ modules' = modules

\* C9: update_review_status of a registered name replaces that entry's
\* review_status and nothing else: the other metadata fields, the factory,
\* the other entries and the key set stay; of an absent name it returns
\* NotFound and the map stays as it is.
C9_UpdateReplacesStatusOnly ==
    [][\A t \in Threads :
         (pc[t] = "update_review_status" /\ pc'[t] = "idle") => C9_UpdateStep(t)]_vars

\* An entry with a signature and a supply chain was approved next to another entry.
C9_Witness ==
    \E t \in Threads :
        /\ result[t].op = "update_review_status"
        /\ result[t].status = "Ok"
        /\ result[t].name \in DOMAIN modules
        /\ Cardinality(DOMAIN modules) = 2
        /\ LET m == modules[result[t].name].meta IN
             /\ IsSome(m.signature)
             /\ IsSome(m.supply_chain)
             /\ m.review_status.tag = "Approved"

StatusTag(map, n) == IF n \in DOMAIN map THEN map[n].meta.review_status.tag ELSE "absent"

ValidatorReturns(t, fn) ==
    /\ pc[t] = "validate"
    /\ call[t].op = fn
    /\ pc'[t] = "idle"

\* The reference predicate of C11, over the integers.
SignatureReference(metadata, current_time) ==
    IF metadata.signature = << >> THEN "false"
    ELSE LET sig == metadata.signature[1] IN
         IF current_time - sig.timestamp > 365 * 24 * 60 * 60 THEN "false"
         ELSE IF sig.algorithm # "SHA256-RSA" THEN "false"
         ELSE IF sig.signature # "" /\ sig.public_key # "" THEN "true"
         ELSE "false"

\* C11 (as claimed): verify_signature returns the value of the reference
\* predicate: false without a signature, false when now - timestamp is more
\* than one year, false when the algorithm is not SHA256-RSA, and otherwise
\* true exactly when the signature and the public key are non-empty.
C11_SignatureMatchesReference ==
    [][\A t \in Threads :
         ValidatorReturns(t, "verify_signature")
            => /\ result'[t].status = "Ok"
               /\ result'[t].value = SignatureReference(call[t].metadata, now)]_vars

\* C12: verify_supply_chain is false when the supply-chain info is absent,
\* false when source_url is empty, false when commit_hash is empty, false when
\* build_timestamp is later than now, and true in every other case, a build
\* stamped now and an absent verifier_signature included.
C12_SupplyChainReference ==
    [][\A t \in Threads :
         ValidatorReturns(t, "verify_supply_chain")
            => LET chain == call[t].metadata.supply_chain IN
               /\ result'[t].status = "Ok"
               /\ result'[t].value \in {"true", "false"}
               /\ result'[t].value = "false"
                    <=> \/ chain = << >>
                        \/ /\ chain # << >>
                           /\ \/ chain[1].source_url = ""
                              \/ chain[1].commit_hash = ""
                              \/ chain[1].build_timestamp > now]_vars

\* verify_supply_chain answered true for a build stamped with the current
\* second and carrying no verifier signature.
C12_Witness ==
    \E t \in Threads :
        /\ result[t].op = "verify_supply_chain"
        /\ result[t].value = "true"
        /\ result[t].arg.supply_chain[1].build_timestamp = now
        /\ result[t].arg.supply_chain[1].verifier_signature = << >>

\* The severities and the components of a list of issues, in order.
Severities(issues) == [i \in 1 .. Len(issues) |-> issues[i].severity]
Components(issues) == [i \in 1 .. Len(issues) |-> issues[i].component]

\* Metadata without a signature, not Approved, without a supply chain, sandboxed.
C13_Bare(metadata) ==
    /\ metadata.signature = << >>
    /\ metadata.review_status.tag # "Approved"
    /\ metadata.supply_chain = << >>
    /\ metadata.sandbox_config.enabled

\* C13: comprehensive_check on metadata with no signature, a review status
\* other than Approved, no supply chain and the sandbox enabled returns
\* exactly three issues, in the order High (signature), Medium (review),
\* Medium (supply chain), with is_secure false and risk_level High.
C13_ThreeIssues ==
    [][\A t \in Threads :
         (ValidatorReturns(t, "comprehensive_check") /\ C13_Bare(call[t].metadata))
            => /\ result'[t].status = "Ok"
               /\ Severities(result'[t].value.issues) = <<"High", "Medium", "Medium">>
               /\ Components(result'[t].value.issues)
                    = <<"signature", "review", "supply_chain">>
               /\ result'[t].value.is_secure = FALSE
               /\ result'[t].value.risk_level = "High"]_vars

\* comprehensive_check returned for Pending metadata with no signature and no
\* supply chain.
C13_Witness ==
    \E t \in Threads :
        /\ result[t].op = "comprehensive_check"
        /\ result[t].status = "Ok"
        /\ C13_Bare(result[t].arg)
        /\ result[t].arg.review_status.tag = "Pending"
        /\ Len(result[t].value.issues) = 3

\* The issue of the permissions rule is in the list.
HasSandboxIssue(issues) ==
    \E i \in 1 .. Len(issues) :
        /\ issues[i].severity = "High"
        /\ issues[i].component = "permissions"
        /\ issues[i].message = "System access granted without sandboxing"

\* C14 (as claimed): for every metadata with system_access true and the
\* sandbox disabled, comprehensive_check returns a result that includes the
\* High "system access without sandboxing" issue, so is_secure is false and
\* risk_level is High or Critical, whatever the signature, the review status
\* and the supply chain are; and the issue is absent whenever system_access
\* is false or the sandbox is enabled.
C14_UnsandboxedSystemAccessFlagged ==
    [][\A t \in Threads :
         ValidatorReturns(t, "comprehensive_check")
            => LET m == call[t].metadata IN
               /\ (m.permissions.system_access /\ ~m.sandbox_config.enabled)
                    => /\ result'[t].status = "Ok"
                       /\ HasSandboxIssue(result'[t].value.issues)
                       /\ result'[t].value.is_secure = FALSE
                       /\ result'[t].value.risk_level \in {"High", "Critical"}
               /\ (~m.permissions.system_access \/ m.sandbox_config.enabled)
                    => \/ result'[t].status # "Ok"
                       \/ ~HasSandboxIssue(result'[t].value.issues)]_vars

\* The order of the severities, None below them all.
SeverityRank(severity) ==
    CASE severity = "None" -> 0
      [] severity = "Low" -> 1
      [] severity = "Medium" -> 2
      [] severity = "High" -> 3
      [] severity = "Critical" -> 4

\* The result v of comprehensive_check on metadata m at the current time.
C15_Result(m, v) ==
    /\ v.is_secure <=> Len(v.issues) = 0
    /\ v.risk_level \in {"None", "Low", "Medium", "High", "Critical"}
    /\ \A i \in 1 .. Len(v.issues) :
          SeverityRank(v.issues[i].severity) <= SeverityRank(v.risk_level)
    /\ \/ v.risk_level = "None" /\ Len(v.issues) = 0
       \/ \E i \in 1 .. Len(v.issues) : v.issues[i].severity = v.risk_level
    /\ v.is_secure <=> v.risk_level = "None"
    /\ v.is_secure
         <=> /\ \A b \in Builds : verify_signature(m, now, b) = "true"
             /\ m.review_status.tag = "Approved"
             /\ verify_supply_chain(m, now) = "true"
             /\ ~(m.permissions.system_access /\ ~m.sandbox_config.enabled)

\* C15: in every result comprehensive_check returns, is_secure is true
\* exactly when the issue list is empty, risk_level is the highest severity
\* among the issues and None exactly when there are none, so is_secure holds
\* exactly when risk_level is None; and the result is secure exactly when the
\* signature verifies, the status is Approved, the supply chain verifies and
\* it is not the case that system_access is granted with the sandbox disabled.
C15_SecureIffNoIssues ==
    [][\A t \in Threads :
         (ValidatorReturns(t, "comprehensive_check") /\ result'[t].status = "Ok")
            => C15_Result(call[t].metadata, result'[t].value)]_vars

\* comprehensive_check found metadata with system access, sandboxed, secure.
C15_Witness ==
    \E t \in Threads :
        /\ result[t].op = "comprehensive_check"
        /\ result[t].status = "Ok"
        /\ result[t].value.is_secure
        /\ result[t].value.risk_level = "None"
        /\ result[t].arg.permissions.system_access

\* The (metadata, SecurityCheckResult) pairs of a finished audit: one per
\* entry for security_audit, one for comprehensive_check.
Verdicts(r) ==
    IF r.op = "security_audit" /\ r.status = "Ok"
    THEN {<<r.arg[n], r.value[n]>> : n \in DOMAIN r.value}
    ELSE IF r.op = "comprehensive_check" /\ r.status = "Ok"
    THEN {<<r.arg, r.value>>}
    ELSE {}

SameVerdict(v, w) ==
    /\ v.issues = w.issues
    /\ v.is_secure = w.is_secure
    /\ v.risk_level = w.risk_level

\* C16 (as claimed): two audits of metadata that did not change return the
\* same issues, is_secure and risk_level, however much time passed between them.
C16_AuditsAgree ==
    \A t, u \in Threads :
        \A p \in Verdicts(result[t]), q \in Verdicts(result[u]) :
            p[1] = q[1] => SameVerdict(p[2], q[2])

TimeFree(issue) == issue.component \notin {"signature", "supply_chain"}

\* C16 (amended): two audits of metadata that did not change return the same
\* issues, is_secure and risk_level when they read the same clock value; when
\* the clock moved between them they can differ, and then only in the
\* signature issue and the supply-chain issue.
C16_AuditsAgreeAtSameTime ==
    \A t, u \in Threads :
        \A p \in Verdicts(result[t]), q \in Verdicts(result[u]) :
            p[1] = q[1]
                => /\ p[2].check_timestamp = q[2].check_timestamp
                        => SameVerdict(p[2], q[2])
                   /\ SelectSeq(p[2].issues, TimeFree) = SelectSeq(q[2].issues, TimeFree)

\* Two security_audit calls saw the same metadata of an entry at different
\* clock values and returned different issues for it.
C16_Witness ==
    \E t, u \in Threads :
        /\ result[t].op = "security_audit"
        /\ result[u].op = "security_audit"
        /\ \E p \in Verdicts(result[t]), q \in Verdicts(result[u]) :
              /\ p[1] = q[1]
              /\ p[2].check_timestamp # q[2].check_timestamp
              /\ p[2].issues # q[2].issues

\* The last record of the inventory that carries the name.
LastRecord(inventory, name) ==
    inventory[CHOOSE i \in 1 .. Len(inventory) :
                 /\ inventory[i].name = name
                 /\ \A j \in (i + 1) .. Len(inventory) : inventory[j].name # name]

\* The map holds the records of the inventory, with default security metadata.
C17_Populated(map, inventory) ==
    /\ DOMAIN map = {inventory[i].name : i \in 1 .. Len(inventory)}
    /\ \A name \in DOMAIN map :
          LET reg == LastRecord(inventory, name)
              m == map[name].meta
          IN /\ map[name].factory = reg.factory
             /\ m.name = reg.name
             /\ m.module_type = reg.module_type
             /\ m.instantiate_fn_name = reg.instantiate_fn_name
             /\ m.module_path = reg.module_path
             /\ m.struct_name = reg.struct_name
             /\ m.signature = << >>
             /\ m.supply_chain = << >>
             /\ m.review_status = [tag |-> "Pending"]
             /\ m.permissions = ModulePermissionsDefault
             /\ m.sandbox_config = SandboxConfigDefault

\* C17: global() yields one process-wide registry.  However the first calls
\* interleave, the initialising closure runs exactly once and every caller
\* gets the same instance; the closure visits each record of the inventory
\* once and leaves it in the map with default security metadata; once the
\* value is set it is never built or populated again: a global() call then
\* returns the same instance and leaves the map as it is, so the registry
\* stays empty after clear() and keeps what was registered on it later.
C17_GlobalOnce ==
    /\ [](REGISTRY.inits <= 1)
    /\ [](REGISTRY.state # "uninit" => REGISTRY.inits = 1)
    /\ [](\A t \in Threads :
            result[t].op = "global"
                => /\ result[t].status = "Ok"
                   /\ REGISTRY.state = "complete"
                   /\ result[t].value = REGISTRY.instance)
    /\ [][REGISTRY.state # "uninit"
            => /\ REGISTRY'.instance = REGISTRY.instance
               /\ REGISTRY'.next \in {REGISTRY.next, REGISTRY.next + 1}
               /\ REGISTRY'.inventory = REGISTRY.inventory]_vars
    /\ [][\A t \in Threads :
            (pc[t] = "init_loop" /\ pc'[t] = "idle")
                => /\ REGISTRY.next = Len(REGISTRY.inventory) + 1
                   /\ C17_Populated(modules', REGISTRY.inventory)]_vars
    /\ [][REGISTRY.state = "complete" => REGISTRY' = REGISTRY]_vars
    /\ [][\A t \in Threads :
            (pc[t] = "get_or_init" /\ pc'[t] = "idle")
                => /\ modules' = modules
                   /\ result'[t].value = REGISTRY.instance]_vars

\* Both threads called global() first; one ran the closure over an inventory
\* of two records, and both hold the same instance.
C17_Witness ==
    /\ nops = 2
    /\ Len(REGISTRY.inventory) = 2
    /\ DOMAIN modules = {"a", "b"}
    /\ REGISTRY.inits = 1
    /\ \A t \in Callers :
          /\ result[t].op = "global"
          /\ result[t].value = <<"registry", 1>>

\* The methods of C18, and the steps at which each looks its name up.
NamedOps ==
    QueryOps \cup {"create_secure", "create_with_sandbox", "update_review_status"}

LookupSteps ==
    {"query", "gate_signature", "gate_approval", "gate_supply_chain", "lookup",
     "update_review_status"}

\* C18: verify_module_signature, check_module_permissions, is_module_approved,
\* verify_supply_chain, create_secure, create_with_sandbox and
\* update_review_status, called with a name that is absent, return NotFound
\* (create_secure too, not a gate failure), call no factory, and no step of
\* any of these calls changes the registry when the name is absent.
C18_AbsentNameNotFound ==
    [][\A t \in Callers :
          /\ (/\ pc[t] \in LookupSteps
              /\ call[t].op \in NamedOps
              /\ ~contains_key(modules, call[t].name)
              /\ pc'[t] # pc[t])
             => /\ pc'[t] = "idle"
                /\ result'[t].op = call[t].op
                /\ result'[t].name = call[t].name
                /\ result'[t].status = "NotFound"
                /\ result'[t].invoked = NoFactory
                /\ modules' = modules
          /\ (/\ pc[t] = "idle"
              /\ pc'[t] # "idle"
              /\ call'[t].op \in NamedOps)
             => modules' = modules]_vars

\* C18 witness: with another name registered, create_secure and one of the
\* queries have both answered NotFound for a name that is absent.
C18_Witness ==
    \E t, u \in Callers :
        /\ t # u
        /\ modules # << >>
        /\ result[t].op = "create_secure"
        /\ result[t].status = "NotFound"
        /\ ~contains_key(modules, result[t].name)
        /\ result[u].op \in QueryOps
        /\ result[u].status = "NotFound"
        /\ ~contains_key(modules, result[u].name)

UntypedCreates == {"create_any", "create_with_sandbox", "create_secure"}

\* Thread t takes a step of its call.
Steps(t) == pc'[t] # pc[t] \/ call'[t] # call[t] \/ result'[t] # result[t]

\* C19: when the factory of a registered module fails, create_any,
\* create_with_sandbox and create_secure return ConstructionFailure with the
\* module name; the one factory call ends the call (no retry) and leaves the
\* entry and its metadata as they were, and a create that finds the name
\* calls the entry's factory whatever earlier calls returned.
C19_FactoryFailure ==
    [][\A t \in Callers :
          /\ (/\ pc[t] = "factory"
              /\ call[t].op \in UntypedCreates
              /\ ~FactoryCall(call[t].factory).ok
              /\ Steps(t))
             => /\ pc'[t] = "idle"
                /\ result'[t].op = call[t].op
                /\ result'[t].status = "ConstructionFailure"
                /\ result'[t].name = call[t].name
                /\ result'[t].invoked = call[t].factory
                /\ modules' = modules
          /\ (pc'[t] = "factory" /\ Steps(t))
             => /\ pc[t] = "lookup"
                /\ contains_key(modules, call[t].name)
                /\ call'[t].factory = modules[call[t].name].factory
          /\ (/\ pc[t] = "lookup"
              /\ call[t].op \in UntypedCreates
              /\ contains_key(modules, call[t].name)
              /\ Steps(t))
             => pc'[t] = "factory"]_vars

\* C19 witness: create_any and create_with_sandbox have both failed in the
\* factory of one name, and the entry is still registered with that factory.
C19_Witness ==
    \E t, u \in Callers :
        /\ result[t].op = "create_any"
        /\ result[u].op = "create_with_sandbox"
        /\ result[t].status = "ConstructionFailure"
        /\ result[u].status = "ConstructionFailure"
        /\ result[t].name = result[u].name
        /\ contains_key(modules, result[t].name)
        /\ modules[result[t].name].factory = "create_failing"
        /\ result[t].invoked = "create_failing"
        /\ result[u].invoked = "create_failing"

\* What a finished create<T> shows: its status fixes how far the call got.
CreateOutcome(r) ==
    CASE r.status = "NotFound" -> r.invoked = NoFactory
      [] r.status = "ConstructionFailure" ->
             r.invoked \in Factories /\ ~FactoryCall(r.invoked).ok
      [] r.status = "TypeMismatch" ->
             /\ r.invoked \in Factories
             /\ FactoryCall(r.invoked).ok
             /\ FactoryCall(r.invoked).type # r.arg
      [] r.status = "Ok" ->
             /\ r.invoked \in Factories
             /\ FactoryCall(r.invoked).ok
             /\ FactoryCall(r.invoked).type = r.arg
             /\ r.value = r.arg
      [] OTHER -> FALSE

\* C20: create<T>(name) returns NotFound when the name is absent, without
\* calling a factory; when the name is present and the factory succeeds it
\* returns the instance if the instance's type is T and the TypeMismatch
\* error otherwise, the factory having run; the call never panics, never
\* changes the registry, and ends with exactly one of these outcomes.
C20_CreateTyped ==
    /\ [](\A t \in Callers : result[t].op = "create" => CreateOutcome(result[t]))
    /\ [][\A t \in Callers :
             /\ (/\ pc[t] = "lookup"
                 /\ call[t].op = "create"
                 /\ ~contains_key(modules, call[t].name)
                 /\ Steps(t))
                => /\ pc'[t] = "idle"
                   /\ result'[t].status = "NotFound"
                   /\ modules' = modules
             /\ (/\ pc[t] = "factory"
                 /\ call[t].op = "create"
                 /\ FactoryCall(call[t].factory).ok
                 /\ Steps(t))
                => /\ pc'[t] = "idle"
                   /\ result'[t].invoked = call[t].factory
                   /\ result'[t].arg = call[t].type
                   /\ result'[t].status =
                          IF FactoryCall(call[t].factory).type = call[t].type
                          THEN "Ok" ELSE "TypeMismatch"
                   /\ modules' = modules
             /\ (call[t].op = "create" /\ Steps(t)) => modules' = modules]_vars

\* C20 witness: create<T> of one registered name has returned the instance
\* to one caller and TypeMismatch to another that asked for a different T.
C20_Witness ==
    \E t, u \in Callers :
        /\ result[t].op = "create"
        /\ result[u].op = "create"
        /\ result[t].name = result[u].name
        /\ contains_key(modules, result[t].name)
        /\ result[t].status = "Ok"
        /\ result[u].status = "TypeMismatch"
        /\ result[u].invoked = modules[result[u].name].factory

\* C21: an entry is removed only by clear(): no step of any other method
\* takes a name out of the key set, so has_module(name), which answers
\* whether the name is a key, stays true from the registration of the name
\* until the next clear().
C21_OnlyClearRemoves ==
    [][/\ (\E n \in DOMAIN modules : n \notin DOMAIN modules')
          => /\ modules' = << >>
             /\ \E t \in Threads : pc[t] = "clear" /\ result'[t].op = "clear"
       /\ \A t \in Threads :
             (pc[t] = "read" /\ call[t].op = "has_module" /\ Steps(t))
             => /\ result'[t].value = (call[t].name \in DOMAIN modules)
                /\ modules' = modules]_vars

\* C21 witness: has_module answers true for a name that was registered and
\* then rejected by update_review_status.
C21_Witness ==
    \E t \in Threads :
        /\ result[t].op = "has_module"
        /\ result[t].value = TRUE
        /\ contains_key(modules, result[t].name)
        /\ modules[result[t].name].meta.review_status.tag = "Rejected"

\* Default security metadata, as C22 spells it out.
C22_Defaults(m) ==
    /\ m.review_status = [tag |-> "Pending"]
    /\ m.signature = << >>
    /\ m.supply_chain = << >>
    /\ ~m.permissions.filesystem_access
    /\ ~m.permissions.network_access
    /\ ~m.permissions.process_spawn
    /\ ~m.permissions.env_access
    /\ ~m.permissions.system_access
    /\ m.permissions.memory_limit_mb = 128
    /\ m.permissions.cpu_limit_percent = 50
    /\ m.permissions.timeout_seconds = 30
    /\ m.sandbox_config.enabled
    /\ m.sandbox_config.filesystem_isolation
    /\ m.sandbox_config.network_isolation
    /\ m.sandbox_config.process_isolation
    /\ m.sandbox_config.read_only_fs

C22_Identity(m, name, module_type, instantiate_fn, module_path, struct_name) ==
    /\ m.name = name
    /\ m.module_type = module_type
    /\ m.instantiate_fn_name = instantiate_fn
    /\ m.module_path = module_path
    /\ m.struct_name = struct_name

\* C22: the entry that register, register_with_metadata or the discovery
\* loop of global() leaves in the map carries default security metadata;
\* register_with_metadata stores the name, module_type and diagnostic
\* identifiers it was given, and get_metadata of a registered name returns
\* the stored metadata.
C22_DefaultMetadata ==
    /\ [][\A t \in Threads :
             /\ (pc[t] = "insert_factory" /\ pc'[t] = "idle"
                    /\ result'[t].op \in {"register", "register_with_metadata"})
                => LET n == result'[t].name
                       m == modules'[n].meta
                   IN /\ C22_Defaults(m)
                      /\ result'[t].op = "register_with_metadata"
                           => \E d \in DescriptorInputs :
                                 C22_Identity(m, n, d.module_type, d.instantiate_fn,
                                              d.module_path, d.struct_name)
                      /\ result'[t].op = "register"
                           => C22_Identity(m, n, "plugin", "factory", RegisterPath,
                                           "Module")
             /\ (pc[t] = "init_loop" /\ REGISTRY'.next = REGISTRY.next + 1)
                => LET reg == REGISTRY.inventory[REGISTRY.next]
                       m == modules'[reg.name].meta
                   IN /\ C22_Defaults(m)
                      /\ C22_Identity(m, reg.name, reg.module_type,
                                      reg.instantiate_fn_name, reg.module_path,
                                      reg.struct_name)
             /\ (pc[t] = "read" /\ call[t].op = "get_metadata" /\ Steps(t)
                    /\ contains_key(modules, call[t].name))
                => result'[t].value = <<modules[call[t].name].meta>>]_vars
    /\ [](\A n \in DOMAIN committed :
            committed[n].meta.name = n /\ C22_Defaults(committed[n].meta))

\* C22 witness: on the global registry, next to an entry that discovery
\* made, get_metadata has returned the metadata of an entry that
\* register_with_metadata made.
C22_Witness ==
    \E t \in Threads, d \in DescriptorInputs :
        /\ result[t].op = "get_metadata"
        /\ result[t].value # << >>
        /\ C22_Identity(result[t].value[1], result[t].name, d.module_type,
                        d.instantiate_fn, d.module_path, d.struct_name)
        /\ C22_Defaults(result[t].value[1])
        /\ \E n \in DOMAIN modules : modules[n].meta.module_type = "module"

\* C23: get_security_report() has one entry per registered name; in every
\* entry signature_verified and has_signature both say whether a signature
\* is present, supply_chain_verified and has_supply_chain both say whether
\* supply-chain info is present, whatever the validator would answer;
\* is_approved says whether the status is Approved and sandbox_enabled is
\* sandbox_config.enabled.  The report changes nothing.
C23_ReportIsPresence ==
    [][\A t \in Threads :
          (pc[t] = "read" /\ call[t].op = "get_security_report" /\ Steps(t))
          => LET report == result'[t].value IN
             /\ result'[t].status = "Ok"
             /\ DOMAIN report = DOMAIN modules
             /\ modules' = modules
             /\ \A n \in DOMAIN modules :
                   LET m == modules[n].meta
                       r == report[n]
                   IN /\ r.name = n
                      /\ r.has_signature = (m.signature # << >>)
                      /\ r.signature_verified = (m.signature # << >>)
                      /\ r.has_supply_chain = (m.supply_chain # << >>)
                      /\ r.supply_chain_verified = (m.supply_chain # << >>)
                      /\ r.is_approved = (m.review_status.tag = "Approved")
                      /\ r.sandbox_enabled = m.sandbox_config.enabled]_vars

\* C23 witness: a report calls an entry verified twice although
\* neither its signature nor its supply chain passes the validator, next
\* to an entry that has neither.
C23_Witness ==
    \E t \in Threads :
        /\ result[t].op = "get_security_report"
        /\ DOMAIN result[t].value = DOMAIN modules
        /\ \E n \in DOMAIN modules :
              /\ result[t].value[n].signature_verified
              /\ result[t].value[n].supply_chain_verified
              /\ \A b \in Builds : verify_signature(modules[n].meta, now, b) # "true"
              /\ verify_supply_chain(modules[n].meta, now) = "false"
        /\ \E n \in DOMAIN modules :
              /\ ~result[t].value[n].has_signature
              /\ ~result[t].value[n].has_supply_chain

\* The metadata of every entry of the map.
StoredMetadata(map) == [n \in DOMAIN map |-> map[n].meta]

\* C24: the mapping security_audit() returns has the key set the registry
\* had at one instant, the instant the audit took its guard, also when
\* registrations and clear() run beside it, and its value for each name is
\* comprehensive_check of the metadata stored under the name at that
\* instant; the audit changes nothing in the registry.
C24_AuditIsSnapshot ==
    /\ [](\A t \in Threads :
            pc[t] = "audit" => StoredMetadata(modules) = call[t].metadata)
    /\ [][\A t \in Threads :
             (pc[t] = "audit" /\ Steps(t))
             => /\ modules' = modules
                /\ result'[t].status = "Ok"
                     => /\ DOMAIN result'[t].value = DOMAIN call[t].metadata
                        /\ \E build \in Builds :
                              \A n \in DOMAIN call[t].metadata :
                                  result'[t].value[n] =
                                      comprehensive_check(call[t].metadata[n], now, build)]_vars

\* C24 witness: an audit has returned the check of the one entry there
\* was, and the other thread's clear() has emptied the registry since.
C24_Witness ==
    \E t, u \in Threads :
        /\ result[t].op = "security_audit"
        /\ result[t].status = "Ok"
        /\ Cardinality(DOMAIN result[t].value) = 1
        /\ result[u].op = "clear"
        /\ modules = << >>

CapabilityKeys ==
    {"filesystem_access", "network_access", "process_spawn", "env_access",
     "system_access"}

\* C25: check_permissions(metadata, key) returns the capability flag the key
\* names when the key is one of the five capability keys, and false for
\* every other key, the names of the numeric caps and the empty string
\* included; it always returns a value, never an error.
C25_PermissionsFailClosed ==
    [][\A t \in Threads :
          (pc[t] = "validate" /\ call[t].op = "check_permissions" /\ Steps(t))
          => LET key == call[t].required_permission
                 flags == call[t].metadata.permissions
             IN /\ result'[t].status = "Ok"
                /\ result'[t].arg = key
                /\ result'[t].value =
                       IF key \in CapabilityKeys
                       THEN (IF flags[key] THEN "true" ELSE "false")
                       ELSE "false"]_vars

\* C25 witness: check_permissions has answered false for the name of a
\* numeric cap.
C25_Witness ==
    \E t \in Threads :
        /\ result[t].op = "check_permissions"
        /\ result[t].arg \in {"memory_limit_mb", "cpu_limit_percent", "timeout_seconds"}
        /\ result[t].status = "Ok"
        /\ result[t].value = "false"

\* The names a Vec holds.
Range(s) == {s[i] : i \in 1 .. Len(s)}

\* C26: every reader answers from the key set of the map as it is when the
\* reader runs: list_modules() and get_module_names() return the registered
\* names, each exactly once; count() is the number of registered names;
\* has_module(n) says whether n is registered, and get_metadata(n) returns
\* a value exactly then.  Readers change nothing, so with no mutation in
\* between the answers agree with one another.
C26_ReadersAgree ==
    [][\A t \in Threads :
          (pc[t] = "read" /\ Steps(t))
          => LET v == result'[t].value
                 registered == DOMAIN modules
             IN /\ modules' = modules
                /\ call[t].op \in {"list_modules", "get_module_names"}
                     => /\ Range(v) = registered
                        /\ Len(v) = Cardinality(registered)
                /\ call[t].op = "count" => v = Cardinality(registered)
                /\ call[t].op = "has_module" => v = (call[t].name \in registered)
                /\ call[t].op = "get_metadata"
                     => (v # << >>) = (call[t].name \in registered)]_vars

\* C26 witness: with one name registered, list_modules() and
\* get_module_names() have returned the same Vec, which holds that name.
C26_Witness ==
    \E t, u \in Threads :
        /\ result[t].op = "list_modules"
        /\ result[u].op = "get_module_names"
        /\ result[t].value = result[u].value
        /\ Len(result[t].value) = 1
        /\ Range(result[t].value) = DOMAIN modules

\* What C27 says both methods return for a name in a registry state: it
\* reads the key set and the stored factory, and no metadata.
C27_Outcome(map, name) ==
    IF name \notin DOMAIN map
    THEN [status |-> "NotFound", value |-> "-", invoked |-> NoFactory]
    ELSE LET r == FactoryCall(map[name].factory) IN
         IF r.ok
         THEN [status |-> "Ok", value |-> r.type, invoked |-> map[name].factory]
         ELSE [status |-> "ConstructionFailure", value |-> "-",
               invoked |-> map[name].factory]

\* C27: create_with_sandbox(name) and create_any(name) have the same
\* outcome in every registry state: NotFound when the name is absent, else
\* one call of the stored factory whose instance or failure is returned,
\* whatever the sandbox configuration, signature, review status and supply
\* chain of the entry are.
C27_SandboxCreateIsCreateAny ==
    [][\A t \in Threads :
          /\ (/\ call[t].op \in {"create_any", "create_with_sandbox"}
              /\ pc[t] # "idle"
              /\ pc'[t] = "idle")
             => [status |-> result'[t].status, value |-> result'[t].value,
                 invoked |-> result'[t].invoked] = C27_Outcome(modules, call[t].name)
          /\ (/\ call[t].op \in {"create_any", "create_with_sandbox"}
              /\ pc[t] = "factory"
              /\ Steps(t))
             => pc'[t] = "idle"]_vars

\* C27 witness: create_any and create_with_sandbox have returned the same
\* instance for one name whose entry is unsigned and not approved.
C27_Witness ==
    \E t, u \in Threads :
        /\ result[t].op = "create_any"
        /\ result[u].op = "create_with_sandbox"
        /\ result[t].name = result[u].name
        /\ result[t].status = "Ok"
        /\ result[u].status = "Ok"
        /\ result[t].value = result[u].value
        /\ result[t].invoked = result[u].invoked
        /\ contains_key(modules, result[t].name)
        /\ modules[result[t].name].meta.signature = << >>
        /\ modules[result[t].name].meta.review_status.tag # "Approved"

\* C28: comprehensive_check never produces a warning: whatever the
\* metadata, none of the delegated checks returns an error, the warnings of
\* a result are empty, and every check that answers false is recorded as
\* an issue of its component.
C28_NoWarnings ==
    [][\A t \in Threads :
          (ValidatorReturns(t, "comprehensive_check") /\ result'[t].status = "Ok")
          => LET m == call[t].metadata
                 v == result'[t].value
             IN /\ v.warnings = << >>
                /\ \A b \in Builds : verify_signature(m, now, b) # "error"
                /\ is_approved(m) # "error"
                /\ verify_supply_chain(m, now) # "error"
                /\ \A b \in Builds : check_permissions(m, "system_access") # "error"
                /\ (\E b \in Builds : verify_signature(m, now, b) = "false")
                     => "signature" \in Range(Components(v.issues))
                /\ is_approved(m) = "false" => "review" \in Range(Components(v.issues))
                /\ verify_supply_chain(m, now) = "false"
                     => "supply_chain" \in Range(Components(v.issues))
                /\ (m.permissions.system_access /\ ~m.sandbox_config.enabled)
                     => "permissions" \in Range(Components(v.issues))]_vars

\* C28 witness: a check of metadata that fails all four rules has returned
\* four issues and no warning.
C28_Witness ==
    \E t \in Threads :
        /\ result[t].op = "comprehensive_check"
        /\ result[t].status = "Ok"
        /\ Len(result[t].value.issues) = 4
        /\ result[t].value.warnings = << >>

\* The entry stored under a name passes the three gates of create_secure.
PassesGates(map, name, current_time) ==
    /\ name \in DOMAIN map
    /\ \A b \in Builds : verify_signature(map[name].meta, current_time, b) = "true"
    /\ is_approved(map[name].meta) = "true"
    /\ verify_supply_chain(map[name].meta, current_time) = "true"

\* C29: however create_secure(name) interleaves with update_review_status,
\* register* and clear on the same name, when create_secure calls the factory
\* the entry stored under the name passes the signature, approval and
\* supply-chain gates, and the factory called is that entry's.
C29_FactoryOfCheckedEntry ==
    \A t \in Threads :
        (pc[t] = "factory" /\ call[t].op = "create_secure")
            => /\ PassesGates(modules, call[t].name, now)
               /\ call[t].factory = modules[call[t].name].factory

\* The step stores new metadata under the name n.
MetadataWritten(n) ==
    /\ n \in DOMAIN modules'
    /\ n \in DOMAIN modules => modules'[n].meta # modules[n].meta

\* Thread t is inside a registration of name n through one of the methods ops.
Registering(t, n, ops) ==
    pc[t] \in {"insert", "insert_factory"} /\ call[t].op \in ops /\ call[t].name = n

\* C30: in a sequential history, a create_secure(name) that returns an
\* instance finds an entry with a signature, a supply chain and the status
\* Approved.  Every registration stores the status Pending, and only
\* register_secure stores a signature or a supply chain, so the latest
\* registration of the name was a register_secure with both present; the
\* status becomes Approved only through update_review_status(name,
\* Approved) and any later update replaces it, so such an update followed
\* the registration and no non-Approved update followed it.  An entry whose
\* latest registration is a register or a register_with_metadata has no
\* signature and never passes.
C30_SecureCreateHistory ==
    /\ [][\A t \in LifecycleThreads :
             (/\ pc[t] = "factory"
              /\ call[t].op = "create_secure"
              /\ pc'[t] = "idle"
              /\ result'[t].status = "Ok")
             => LET m == modules[call[t].name].meta IN
                /\ m.signature # << >>
                /\ m.supply_chain # << >>
                /\ m.review_status.tag = "Approved"]_vars
    /\ [][\A n \in Names :
             MetadataWritten(n)
             => \/ \E t \in LifecycleThreads :
                      /\ Registering(t, n, {"register", "register_with_metadata"})
                      /\ modules'[n].meta.signature = << >>
                      /\ modules'[n].meta.supply_chain = << >>
                      /\ modules'[n].meta.review_status = Pending
                \/ \E t \in LifecycleThreads :
                      /\ Registering(t, n, {"register_secure"})
                      /\ modules'[n].meta.review_status = Pending
                \/ \E t \in LifecycleThreads :
                      /\ pc[t] = "update_review_status"
                      /\ call[t].name = n
                      /\ n \in DOMAIN modules
                      /\ modules'[n].meta =
                            [modules[n].meta EXCEPT !.review_status = call[t].status]]_vars

\* C30 witness: create_secure has returned an instance of an entry that
\* carries a signature and a supply chain and is Approved.
C30_Witness ==
    \E t \in LifecycleThreads :
        /\ result[t].op = "create_secure"
        /\ result[t].status = "Ok"
        /\ contains_key(modules, result[t].name)
        /\ modules[result[t].name].meta.signature # << >>
        /\ modules[result[t].name].meta.supply_chain # << >>
        /\ modules[result[t].name].meta.review_status.tag = "Approved"


\* C31: every entry of the registry has sandbox_config.enabled true, since
\* ModuleMetadata::new and ModuleMetadata::secure store the default sandbox
\* and update_review_status leaves it; so no result of security_audit()
\* holds the "system access without sandboxing" issue, also for a module
\* registered with system_access, and every entry of get_security_report()
\* has sandbox_enabled true.
C31_SandboxAlwaysEnabled ==
    /\ \A n \in DOMAIN modules : modules[n].meta.sandbox_config.enabled
    /\ \A n \in DOMAIN committed : committed[n].meta.sandbox_config.enabled
    /\ \A t \in Threads :
          /\ (result[t].op = "security_audit" /\ result[t].status = "Ok")
                => \A n \in DOMAIN result[t].value :
                       ~HasSandboxIssue(result[t].value[n].issues)
          /\ result[t].op = "get_security_report"
                => \A n \in DOMAIN result[t].value :
                       result[t].value[n].sandbox_enabled

\* C31 witness: the audit has returned its result for a module that
\* register_secure stored with system_access and update_review_status
\* approved, and the result holds issues but not the sandbox one.
C31_Witness ==
    \E t \in Threads :
        /\ result[t].op = "security_audit"
        /\ result[t].status = "Ok"
        /\ \E n \in DOMAIN result[t].value :
              /\ contains_key(modules, n)
              /\ modules[n].meta.permissions.system_access
              /\ modules[n].meta.review_status.tag = "Approved"
              /\ result[t].value[n].issues # << >>
              /\ ~HasSandboxIssue(result[t].value[n].issues)

\* C32 (as claimed): for a signature stamped later than the current time,
\* verify_signature returns a boolean (the u64 subtraction now - timestamp
\* neither panics nor wraps), and the boolean is that of the rule over the
\* integers: the signature is not expired, so the answer is true exactly
\* when the algorithm is SHA256-RSA and signature and public_key are
\* non-empty.
C32_FutureSignatureVerifies ==
    [][\A t \in Threads :
         (/\ ValidatorReturns(t, "verify_signature")
          /\ IsSome(call[t].metadata.signature)
          /\ Unwrap(call[t].metadata.signature).timestamp > now)
            => LET sig == Unwrap(call[t].metadata.signature) IN
               /\ result'[t].status = "Ok"
               /\ result'[t].value \in {"true", "false"}
               /\ result'[t].value = "true"
                     <=> /\ sig.algorithm = "SHA256-RSA"
                         /\ sig.signature # ""
                         /\ sig.public_key # ""]_vars

\* C33: in every state of the registry the name field of each entry's
\* metadata is the key the entry is stored under, in the map as a writer
\* has it and in the map as readers see it, after discovery, register,
\* register_with_metadata, register_secure and update_review_status.
C33_NameIsKey ==
    /\ \A n \in DOMAIN modules : modules[n].meta.name = n
    /\ \A n \in DOMAIN committed : committed[n].meta.name = n

\* C33 witness: the registry holds an entry that discovery stored and an
\* entry that register_secure stored and update_review_status judged,
\* each named by its key.
C33_Witness ==
    /\ Initialised
    /\ writer = {}
    /\ \E n, k \in DOMAIN modules :
          /\ n # k
          /\ modules[n].meta.module_type = "module"
          /\ modules[n].meta.name = n
          /\ modules[k].meta.module_type = "plugin"
          /\ modules[k].meta.review_status.tag \in {"Approved", "Rejected"}
          /\ modules[k].meta.name = k

\* The methods that take the write guard, and the methods that only read.
WriterOps ==
    {"register", "register_with_metadata", "register_secure",
     "update_review_status", "clear"}

ReaderOps ==
    {"create_any", "create", "create_secure", "create_with_sandbox",
     "has_module", "count", "list_modules", "get_module_names", "get_metadata",
     "verify_module_signature", "check_module_permissions", "is_module_approved",
     "verify_supply_chain", "get_security_report", "security_audit"}

\* C34: the registry changes only in a step of register,
\* register_with_metadata, register_secure, clear or an update_review_status
\* whose name is present.  No step of a create method, whether it returns an
\* instance or fails, of has_module, count, list_modules, get_module_names,
\* get_metadata, the four security queries, get_security_report or
\* security_audit changes the key set, a metadata or a factory; a
\* create_secure that fails a check leaves the review status as it was.
C34_ReadersChangeNothing ==
    [][/\ \A t \in Threads :
            /\ (Steps(t) /\ (call[t].op \in ReaderOps \/ call'[t].op \in ReaderOps))
                  => /\ modules' = modules
                     /\ committed' = committed
            /\ (/\ pc[t] = "update_review_status"
                /\ Steps(t)
                /\ ~contains_key(modules, call[t].name))
                  => /\ modules' = modules
                     /\ committed' = committed
       /\ (modules' # modules \/ committed' # committed)
             => \E t \in Threads : Steps(t) /\ call[t].op \in WriterOps]_vars

\* C34 witness: create_secure has failed the approval check on a module
\* that register_secure stored, and the entry still is Pending with the
\* signature, the supply chain and the factory it was registered with.
C34_Witness ==
    \E t \in Threads :
        /\ result[t].op = "create_secure"
        /\ result[t].status = "NotApproved"
        /\ contains_key(modules, result[t].name)
        /\ modules[result[t].name].meta.review_status = Pending
        /\ IsSome(modules[result[t].name].meta.signature)
        /\ IsSome(modules[result[t].name].meta.supply_chain)
        /\ modules[result[t].name].factory \in Factories
        /\ committed = modules
=============================================================================
